---- MODULE Spec2Model ----
\* A model of the mcp-obsidian vault server: the boolean query engine
\* (tokenizeQuery, buildSearchExpression, evaluateExpression), the line
\* matchers, result aggregation and pagination, and the note operations
\* (read-note, write-note, delete-note, resources) over a small filesystem.
\*
\* Text is modelled at character level: a JavaScript string is a sequence of
\* one-character strings, so "a AND" is <<"a", " ", "A", "N", "D">>.
EXTENDS Integers, Sequences, FiniteSets, TLC

\* ------------------------------------------------------------------
\* Strings
\* ------------------------------------------------------------------

UpperLetters == <<"A","B","C","D","E","F","G","H","I","J","K","L","M",
                  "N","O","P","Q","R","S","T","U","V","W","X","Y","Z">>

LowerLetters == <<"a","b","c","d","e","f","g","h","i","j","k","l","m",
                  "n","o","p","q","r","s","t","u","v","w","x","y","z">>

Digits == {"0","1","2","3","4","5","6","7","8","9"}

Range(s) == { s[i] : i \in DOMAIN s }

\* String.prototype.toLowerCase on one character
LowerChar(c) ==
  IF \E i \in DOMAIN UpperLetters : UpperLetters[i] = c
  THEN LowerLetters[CHOOSE i \in DOMAIN UpperLetters : UpperLetters[i] = c]
  ELSE c

\* String.prototype.toLowerCase
toLowerCase(s) == [i \in DOMAIN s |-> LowerChar(s[i])]

\* the regular expression class \s (and \S, its complement)
IsSpace(c) == c \in {" ", "\n", "\t", "\r"}

\* the regular expression class \w
IsWordChar(c) == c \in Range(UpperLetters) \cup Range(LowerLetters) \cup Digits \cup {"_"}

\* String.prototype.startsWith
startsWith(s, p) == Len(p) <= Len(s) /\ SubSeq(s, 1, Len(p)) = p

\* String.prototype.endsWith
endsWith(s, p) == Len(p) <= Len(s) /\ SubSeq(s, Len(s) - Len(p) + 1, Len(s)) = p

\* s occurs in h at (1-based) position i
OccursAt(h, s, i) == i >= 1 /\ i + Len(s) - 1 <= Len(h) /\ SubSeq(h, i, i + Len(s) - 1) = s

\* String.prototype.includes
includes(h, s) == \E i \in 1..(Len(h) + 1) : OccursAt(h, s, i)

\* String.prototype.trim
trim(s) ==
  LET keep == { i \in DOMAIN s : ~IsSpace(s[i]) }
  IN IF keep = {} THEN <<>>
     ELSE LET lo == CHOOSE i \in keep : \A j \in keep : i <= j
              hi == CHOOSE i \in keep : \A j \in keep : j <= i
          IN SubSeq(s, lo, hi)

\* the first index >= from whose character satisfies no "stay" test, or
\* Len(s) + 1: the exit position of a loop  while (i < len && Stay(s[i])) i++
RECURSIVE SkipWhile(_, _, _)
SkipWhile(s, from, stay) ==
  IF from <= Len(s) /\ s[from] \in stay THEN SkipWhile(s, from + 1, stay) ELSE from

\* the first index >= from holding character c, or Len(s) + 1
RECURSIVE IndexFrom(_, _, _)
IndexFrom(s, from, c) ==
  IF from <= Len(s) /\ s[from] # c THEN IndexFrom(s, from + 1, c) ELSE from

\* String.prototype.split(c) for a one-character separator
RECURSIVE splitOn(_, _)
splitOn(s, c) ==
  LET n == IndexFrom(s, 1, c)
  IN IF n > Len(s) THEN <<s>>
     ELSE <<SubSeq(s, 1, n - 1)>> \o splitOn(SubSeq(s, n + 1, Len(s)), c)

\* String.prototype.split('\n')
split(s) == splitOn(s, "\n")

\* Array.prototype.join(c)
RECURSIVE joinWith(_, _)
joinWith(ls, c) ==
  IF ls = <<>> THEN <<>>
  ELSE IF Len(ls) = 1 THEN ls[1]
  ELSE ls[1] \o <<c>> \o joinWith(Tail(ls), c)

\* Array.prototype.join('\n')
join(ls) == joinWith(ls, "\n")

\* The characters of the model in ascending UTF-16 code unit order; CharRank
\* is the position in it, so it orders characters as their code units do.
CodeOrder ==
  <<"\t", "\n", "\r", " ", "\"", "#", "&", "(", ")", "*", "+", "-", ".", "/",
    "0","1","2","3","4","5","6","7","8","9", ":">>
  \o UpperLetters \o <<"[", "]", "_">> \o LowerLetters \o <<"|">>

CharRank(c) == CHOOSE i \in DOMAIN CodeOrder : CodeOrder[i] = c

\* a < b as JavaScript compares strings (by code unit, a proper prefix first)
RECURSIVE StrLess(_, _)
StrLess(a, b) ==
  IF b = <<>> THEN FALSE
  ELSE IF a = <<>> THEN TRUE
  ELSE IF a[1] = b[1] THEN StrLess(Tail(a), Tail(b))
  ELSE CharRank(a[1]) < CharRank(b[1])

\* words the code compares against
W_AND == <<"A","N","D">>
W_OR == <<"O","R">>
W_NOT == <<"N","O","T">>
W_AMPAMP == <<"&","&">>
W_BARBAR == <<"|","|">>
W_title == <<"t","i","t","l","e">>
W_tag == <<"t","a","g">>
W_content == <<"c","o","n","t","e","n","t">>

\* ------------------------------------------------------------------
\* search-operators: tokens
\* ------------------------------------------------------------------

TermTok(v) == [type |-> "TERM", field |-> <<>>, value |-> v]
FieldTok(f, v) == [type |-> "FIELD", field |-> f, value |-> v]
OpTok(t) == [type |-> t, field |-> <<>>, value |-> <<>>]

\* a faulty variant of ScanStep: an unterminated quote is not stepped over
ScanStepQuoteKept(query, i, tokens) ==
  IF IsSpace(query[i]) THEN [i |-> i + 1, tokens |-> tokens]
  ELSE IF query[i] = "\"" THEN
    LET j == IndexFrom(query, i + 1, "\"")
    IN IF j <= Len(query)
       THEN [i |-> j + 1, tokens |-> Append(tokens, TermTok(SubSeq(query, i + 1, j - 1)))]
       ELSE [i |-> i, tokens |-> tokens]
  ELSE IF query[i] = "(" THEN [i |-> i + 1, tokens |-> Append(tokens, OpTok("LPAREN"))]
  ELSE IF query[i] = ")" THEN [i |-> i + 1, tokens |-> Append(tokens, OpTok("RPAREN"))]
  ELSE IF query[i] = "-" /\ i + 1 <= Len(query) /\ ~IsSpace(query[i + 1])
    THEN [i |-> i + 1, tokens |-> Append(tokens, OpTok("NOT"))]
  ELSE
    LET wordChars == { query[k] : k \in DOMAIN query } \ {" ", "\n", "\t", "\r", "\"", "(", ")"}
        e == SkipWhile(query, i, wordChars)
        word == SubSeq(query, i, e - 1)
    IN IF word = W_AND \/ word = W_AMPAMP THEN [i |-> e, tokens |-> Append(tokens, OpTok("AND"))]
       ELSE IF word = W_OR \/ word = W_BARBAR THEN [i |-> e, tokens |-> Append(tokens, OpTok("OR"))]
       ELSE IF word = W_NOT THEN [i |-> e, tokens |-> Append(tokens, OpTok("NOT"))]
       ELSE IF \E k \in DOMAIN word : word[k] = ":" THEN
         LET colonIndex == IndexFrom(word, 1, ":")
             field == SubSeq(word, 1, colonIndex - 1)
             value == SubSeq(word, colonIndex + 1, Len(word))
         IN IF field # <<>> /\ value # <<>> THEN
              [i |-> e, tokens |-> Append(tokens, FieldTok(toLowerCase(field), value))]
            ELSE IF field # <<>> /\ value = <<>> /\ e <= Len(query) /\ query[e] = "\"" THEN
              LET q2 == IndexFrom(query, e + 1, "\"")
              IN IF q2 <= Len(query)
                 THEN [i |-> q2 + 1,
                       tokens |-> Append(tokens, FieldTok(toLowerCase(field), SubSeq(query, e + 1, q2 - 1)))]
                 ELSE [i |-> q2, tokens |-> tokens]
            ELSE [i |-> e, tokens |-> tokens]
       ELSE [i |-> e, tokens |-> Append(tokens, TermTok(word))]

\* one iteration of the scanning loop of tokenizeQuery, at 1-based position i
\* with the tokens collected so far: the position and tokens after it
ScanStep(query, i, tokens) ==
  IF IsSpace(query[i]) THEN [i |-> i + 1, tokens |-> tokens]
  ELSE IF query[i] = "\"" THEN
    LET j == IndexFrom(query, i + 1, "\"")
    IN IF j <= Len(query)
       THEN [i |-> j + 1, tokens |-> Append(tokens, TermTok(SubSeq(query, i + 1, j - 1)))]
       ELSE [i |-> j, tokens |-> tokens]
  ELSE IF query[i] = "(" THEN [i |-> i + 1, tokens |-> Append(tokens, OpTok("LPAREN"))]
  ELSE IF query[i] = ")" THEN [i |-> i + 1, tokens |-> Append(tokens, OpTok("RPAREN"))]
  ELSE IF query[i] = "-" /\ i + 1 <= Len(query) /\ ~IsSpace(query[i + 1])
    THEN [i |-> i + 1, tokens |-> Append(tokens, OpTok("NOT"))]
  ELSE
    LET wordChars == { query[k] : k \in DOMAIN query } \ {" ", "\n", "\t", "\r", "\"", "(", ")"}
        e == SkipWhile(query, i, wordChars)
        word == SubSeq(query, i, e - 1)
    IN IF word = W_AND \/ word = W_AMPAMP THEN [i |-> e, tokens |-> Append(tokens, OpTok("AND"))]
       ELSE IF word = W_OR \/ word = W_BARBAR THEN [i |-> e, tokens |-> Append(tokens, OpTok("OR"))]
       ELSE IF word = W_NOT THEN [i |-> e, tokens |-> Append(tokens, OpTok("NOT"))]
       ELSE IF \E k \in DOMAIN word : word[k] = ":" THEN
         LET colonIndex == IndexFrom(word, 1, ":")
             field == SubSeq(word, 1, colonIndex - 1)
             value == SubSeq(word, colonIndex + 1, Len(word))
         IN IF field # <<>> /\ value # <<>> THEN
              \* a word never holds a quote (the collecting loop stops at one),
              \* so value.startsWith('"') is false and the plain branch is taken
              [i |-> e, tokens |-> Append(tokens, FieldTok(toLowerCase(field), value))]
            ELSE IF field # <<>> /\ value = <<>> /\ e <= Len(query) /\ query[e] = "\"" THEN
              LET q2 == IndexFrom(query, e + 1, "\"")
              IN IF q2 <= Len(query)
                 THEN [i |-> q2 + 1,
                       tokens |-> Append(tokens, FieldTok(toLowerCase(field), SubSeq(query, e + 1, q2 - 1)))]
                 ELSE [i |-> q2, tokens |-> tokens]
            ELSE [i |-> e, tokens |-> tokens]
       ELSE [i |-> e, tokens |-> Append(tokens, TermTok(word))]

\* the scanning loop of tokenizeQuery: while (i < query.length) { ... }
RECURSIVE ScanTokens(_, _, _)
ScanTokens(query, i, tokens) ==
  IF i > Len(query) THEN tokens
  ELSE LET s == ScanStep(query, i, tokens) IN ScanTokens(query, s.i, s.tokens)

\* a faulty variant of needsAnd: no implicit AND is ever inserted
needsAndNever(current, next) == FALSE

\* a faulty variant of needsAnd: an AND only before a TERM or a FIELD
needsAndBeforeOperand(current, next) ==
  /\ current.type \in {"TERM", "FIELD", "RPAREN"}
  /\ next.type \in {"TERM", "FIELD"}

needsAnd(current, next) ==
  /\ current.type \in {"TERM", "FIELD", "RPAREN"}
  /\ next.type \in {"TERM", "FIELD", "LPAREN", "NOT"}

\* the second loop of tokenizeQuery: implicit AND between adjacent operands
RECURSIVE InsertImplicitAnd(_, _)
InsertImplicitAnd(tokens, j) ==
  IF j > Len(tokens) THEN <<>>
  ELSE IF j < Len(tokens) /\ needsAnd(tokens[j], tokens[j + 1])
       THEN <<tokens[j], OpTok("AND")>> \o InsertImplicitAnd(tokens, j + 1)
       ELSE <<tokens[j]>> \o InsertImplicitAnd(tokens, j + 1)

tokenizeQuery(query) ==
  IF query = <<>> \/ trim(query) = <<>> THEN <<>>
  ELSE InsertImplicitAnd(ScanTokens(query, 1, <<>>), 1)

\* ------------------------------------------------------------------
\* search-operators: expression trees
\* ------------------------------------------------------------------

\* a faulty variant of precedence: every operator binds alike
precedenceFlat(t) == 1

precedence(t) == CASE t = "NOT" -> 3 [] t = "AND" -> 2 [] t = "OR" -> 1

\* while (stack not empty && top is not LPAREN && precedence[top] >= precedence[tok])
\* output.push(stack.pop()); a state is <<outputQueue, operatorStack>>
RECURSIVE PopHigher(_, _, _)
PopHigher(out, ops, tok) ==
  IF /\ Len(ops) > 0
     /\ ops[Len(ops)].type # "LPAREN"
     /\ precedence(ops[Len(ops)].type) >= precedence(tok.type)
  THEN PopHigher(Append(out, ops[Len(ops)]), SubSeq(ops, 1, Len(ops) - 1), tok)
  ELSE <<out, ops>>

\* while (stack not empty && top is not LPAREN) output.push(stack.pop())
RECURSIVE PopToParen(_, _)
PopToParen(out, ops) ==
  IF Len(ops) > 0 /\ ops[Len(ops)].type # "LPAREN"
  THEN PopToParen(Append(out, ops[Len(ops)]), SubSeq(ops, 1, Len(ops) - 1))
  ELSE <<out, ops>>

\* while (stack not empty) output.push(stack.pop())
RECURSIVE PopAll(_, _)
PopAll(out, ops) ==
  IF Len(ops) > 0 THEN PopAll(Append(out, ops[Len(ops)]), SubSeq(ops, 1, Len(ops) - 1))
  ELSE out

\* the shunting-yard loop of buildSearchExpression: the output queue (RPN)
RECURSIVE ShuntingYard(_, _, _, _)
ShuntingYard(tokens, k, out, ops) ==
  IF k > Len(tokens) THEN PopAll(out, ops)
  ELSE LET token == tokens[k]
       IN IF token.type \in {"TERM", "FIELD"} THEN ShuntingYard(tokens, k + 1, Append(out, token), ops)
          ELSE IF token.type = "NOT" THEN ShuntingYard(tokens, k + 1, out, Append(ops, token))
          ELSE IF token.type \in {"AND", "OR"} THEN
            LET p == PopHigher(out, ops, token)
            IN ShuntingYard(tokens, k + 1, p[1], Append(p[2], token))
          ELSE IF token.type = "LPAREN" THEN ShuntingYard(tokens, k + 1, out, Append(ops, token))
          ELSE \* RPAREN
            LET p == PopToParen(out, ops)
            IN IF Len(p[2]) > 0 /\ p[2][Len(p[2])].type = "LPAREN"
               THEN ShuntingYard(tokens, k + 1, p[1], SubSeq(p[2], 1, Len(p[2]) - 1))
               ELSE ShuntingYard(tokens, k + 1, p[1], p[2])

TermNode(v) == [type |-> "TERM", value |-> v]
FieldNode(f, v) == [type |-> "FIELD", field |-> f, value |-> v]
NotNode(x) == [type |-> "NOT", operand |-> x]
BinNode(t, l, r) == [type |-> t, left |-> l, right |-> r]

LeafOf(token) ==
  IF token.type = "TERM" THEN TermNode(token.value) ELSE FieldNode(token.field, token.value)

\* the second loop of buildSearchExpression: the operand stack built from the
\* RPN queue, or an error (a thrown Error)
RECURSIVE BuildFromRpn(_, _, _)
BuildFromRpn(rpn, k, stack) ==
  IF k > Len(rpn) THEN
    IF Len(stack) # 1 THEN [kind |-> "error", error |-> "expression not well-formed"]
    ELSE [kind |-> "tree", tree |-> stack[1]]
  ELSE LET token == rpn[k]
       IN IF token.type \in {"TERM", "FIELD"} THEN BuildFromRpn(rpn, k + 1, Append(stack, LeafOf(token)))
          ELSE IF token.type = "NOT" THEN
            IF Len(stack) < 1 THEN [kind |-> "error", error |-> "NOT requires an operand"]
            ELSE BuildFromRpn(rpn, k + 1,
                   Append(SubSeq(stack, 1, Len(stack) - 1), NotNode(stack[Len(stack)])))
          ELSE IF token.type \in {"AND", "OR"} THEN
            IF Len(stack) < 2 THEN [kind |-> "error", error |-> "operator requires two operands"]
            ELSE BuildFromRpn(rpn, k + 1,
                   Append(SubSeq(stack, 1, Len(stack) - 2),
                          BinNode(token.type, stack[Len(stack) - 1], stack[Len(stack)])))
          ELSE BuildFromRpn(rpn, k + 1, stack)

\* a faulty variant of buildSearchExpression: the last test, on the size of the
\* operand stack, is left out and null returned in its place
buildSearchExpressionUnchecked(tokens) ==
  IF Len(tokens) = 0 THEN [kind |-> "null"]
  ELSE IF BuildFromRpn(ShuntingYard(tokens, 1, <<>>, <<>>), 1, <<>>)
            = [kind |-> "error", error |-> "expression not well-formed"]
  THEN [kind |-> "null"]
  ELSE BuildFromRpn(ShuntingYard(tokens, 1, <<>>, <<>>), 1, <<>>)

\* the result is [kind |-> "null"] (no expression), [kind |-> "tree", tree |-> t]
\* or [kind |-> "error", ...] (the function throws)
buildSearchExpression(tokens) ==
  IF Len(tokens) = 0 THEN [kind |-> "null"]
  ELSE BuildFromRpn(ShuntingYard(tokens, 1, <<>>, <<>>), 1, <<>>)

parseSearchQuery(query) == buildSearchExpression(tokenizeQuery(query))

\* ------------------------------------------------------------------
\* search-operators: evaluation
\* ------------------------------------------------------------------

\* JavaScript null as an expression ("no expression")
NullExpr == [type |-> "null"]

\* a faulty variant of SomeTagIncludes: the tags are compared as written
SomeTagIncludesExact(tags, v) == \E k \in DOMAIN tags : includes(tags[k], v)

\* a faulty variant of evaluateExpression: an OR node asks for both operands
RECURSIVE evaluateExpressionOrAsAnd(_, _, _)
evaluateExpressionOrAsAnd(expression, content, metadata) ==
  IF expression = NullExpr THEN TRUE
  ELSE CASE expression.type = "TERM" ->
              \/ includes(toLowerCase(content), toLowerCase(expression.value))
              \/ includes(toLowerCase(metadata.title), toLowerCase(expression.value))
              \/ \E k \in DOMAIN metadata.tags :
                    includes(toLowerCase(metadata.tags[k]), toLowerCase(expression.value))
         [] expression.type = "FIELD" ->
              CASE expression.field = W_title ->
                     includes(toLowerCase(metadata.title), toLowerCase(expression.value))
                [] expression.field = W_content ->
                     includes(toLowerCase(content), toLowerCase(expression.value))
                [] expression.field = W_tag ->
                     \E k \in DOMAIN metadata.tags :
                       includes(toLowerCase(metadata.tags[k]), toLowerCase(expression.value))
                [] OTHER -> FALSE
         [] expression.type \in {"AND", "OR"} ->
              /\ evaluateExpressionOrAsAnd(expression.left, content, metadata)
              /\ evaluateExpressionOrAsAnd(expression.right, content, metadata)
         [] expression.type = "NOT" ->
              ~evaluateExpressionOrAsAnd(expression.operand, content, metadata)
         [] OTHER -> FALSE

\* Array.prototype.some(tag => tag.includes(v)) over the lower-cased tags
SomeTagIncludes(tags, v) == \E k \in DOMAIN tags : includes(toLowerCase(tags[k]), v)

RECURSIVE evaluateExpression(_, _, _)
evaluateExpression(expression, content, metadata) ==
  IF expression = NullExpr THEN TRUE
  ELSE LET contentLower == toLowerCase(content)
           titleLower == toLowerCase(metadata.title)
       IN CASE expression.type = "TERM" ->
                 LET termLower == toLowerCase(expression.value)
                 IN \/ includes(contentLower, termLower)
                    \/ includes(titleLower, termLower)
                    \/ SomeTagIncludes(metadata.tags, termLower)
            [] expression.type = "FIELD" ->
                 LET valueLower == toLowerCase(expression.value)
                 IN CASE expression.field = W_title -> includes(titleLower, valueLower)
                      [] expression.field = W_content -> includes(contentLower, valueLower)
                      [] expression.field = W_tag -> SomeTagIncludes(metadata.tags, valueLower)
                      [] OTHER -> FALSE
            [] expression.type = "AND" ->
                 /\ evaluateExpression(expression.left, content, metadata)
                 /\ evaluateExpression(expression.right, content, metadata)
            [] expression.type = "OR" ->
                 \/ evaluateExpression(expression.left, content, metadata)
                 \/ evaluateExpression(expression.right, content, metadata)
            [] expression.type = "NOT" ->
                 ~evaluateExpression(expression.operand, content, metadata)
            [] OTHER -> FALSE

\* a faulty variant of extractSearchTerms: the terms under a NOT are collected too
RECURSIVE extractSearchTermsWithNegated(_)
extractSearchTermsWithNegated(expression) ==
  IF expression = NullExpr THEN <<>>
  ELSE CASE expression.type \in {"TERM", "FIELD"} -> <<expression.value>>
         [] expression.type \in {"AND", "OR"} ->
              extractSearchTermsWithNegated(expression.left)
              \o extractSearchTermsWithNegated(expression.right)
         [] expression.type = "NOT" -> extractSearchTermsWithNegated(expression.operand)
         [] OTHER -> <<>>

\* only the positive (not negated) terms
RECURSIVE extractSearchTerms(_)
extractSearchTerms(expression) ==
  IF expression = NullExpr THEN <<>>
  ELSE CASE expression.type \in {"TERM", "FIELD"} -> <<expression.value>>
         [] expression.type \in {"AND", "OR"} ->
              extractSearchTerms(expression.left) \o extractSearchTerms(expression.right)
         [] OTHER -> <<>>

\* ------------------------------------------------------------------
\* search-context
\* ------------------------------------------------------------------

Max(a, b) == IF a >= b THEN a ELSE b
Min(a, b) == IF a <= b THEN a ELSE b

\* a faulty variant of extractContextLines: the window ends one line early
extractContextLinesShort(lines, matchIndex, contextSize) ==
  IF Len(lines) = 0 THEN [lines |-> <<>>, startIndex |-> 0, matchIndex |-> 0]
  ELSE [lines |-> SubSeq(lines, Max(0, matchIndex - contextSize) + 1,
                         Min(Len(lines) - 1, matchIndex + contextSize)),
        startIndex |-> Max(0, matchIndex - contextSize),
        matchIndex |-> matchIndex - Max(0, matchIndex - contextSize)]

\* matchIndex and startIndex are 0-based, as in the code
extractContextLines(lines, matchIndex, contextSize) ==
  IF Len(lines) = 0 THEN [lines |-> <<>>, startIndex |-> 0, matchIndex |-> 0]
  ELSE LET startIdx == Max(0, matchIndex - contextSize)
           endIdx == Min(Len(lines) - 1, matchIndex + contextSize)
       IN [lines |-> SubSeq(lines, startIdx + 1, endIdx + 1),
           startIndex |-> startIdx,
           matchIndex |-> matchIndex - startIdx]

\* line.replace(new RegExp(escapeRegex(q), 'g' or 'gi'), '**$&**') from position i
RECURSIVE ReplaceAll(_, _, _, _)
ReplaceAll(line, q, caseSensitive, i) ==
  IF i > Len(line) THEN <<>>
  ELSE IF /\ i + Len(q) - 1 <= Len(line)
          /\ LET piece == SubSeq(line, i, i + Len(q) - 1)
             IN IF caseSensitive THEN piece = q ELSE toLowerCase(piece) = toLowerCase(q)
  THEN <<"*", "*">> \o SubSeq(line, i, i + Len(q) - 1) \o <<"*", "*">>
         \o ReplaceAll(line, q, caseSensitive, i + Len(q))
  ELSE <<line[i]>> \o ReplaceAll(line, q, caseSensitive, i + 1)

highlightMatch(line, q, caseSensitive) ==
  IF line = <<>> \/ q = <<>> THEN line ELSE ReplaceAll(line, q, caseSensitive, 1)

maxLineLength == 150

\* a faulty variant of formatContextResult: the lines are numbered within the
\* window
formatContextResultRelative(match, contextLines, q) ==
  [line |-> match.line, content |-> match.content,
   context |-> [lines |-> [idx \in 1..Len(contextLines.lines) |->
                             [number |-> idx,
                              text |-> contextLines.lines[idx],
                              isMatch |-> (idx - 1) = contextLines.matchIndex]],
                highlighted |-> <<>>]]

formatContextResult(match, contextLines, q) ==
  LET formattedLines ==
        [idx \in 1..Len(contextLines.lines) |->
           LET line == contextLines.lines[idx]
           IN [number |-> contextLines.startIndex + (idx - 1) + 1,
               text |-> IF Len(line) > maxLineLength
                        THEN SubSeq(line, 1, maxLineLength) \o <<".", ".", ".">>
                        ELSE line,
               isMatch |-> (idx - 1) = contextLines.matchIndex]]
      matchedLine == IF contextLines.matchIndex + 1 \in DOMAIN contextLines.lines
                     THEN contextLines.lines[contextLines.matchIndex + 1]
                     ELSE <<>>
  IN [line |-> match.line, content |-> match.content,
      context |-> [lines |-> formattedLines,
                   highlighted |-> highlightMatch(matchedLine, q, FALSE)]]

\* the options object {includeContext, contextLines} with the code's defaults
DefaultOptions == [includeContext |-> FALSE, contextLines |-> 2]

\* ------------------------------------------------------------------
\* title-search, tags
\* ------------------------------------------------------------------

\* line.trim().match(/^#\s+(.+)$/)
StartsH1(t) == Len(t) >= 3 /\ t[1] = "#" /\ IsSpace(t[2])

IsH1(line) == StartsH1(trim(line))

\* the 1-based index of the first H1 line, or 0 (findIndex's -1)
FirstH1(lines) ==
  IF \E k \in DOMAIN lines : IsH1(lines[k])
  THEN CHOOSE k \in DOMAIN lines : IsH1(lines[k]) /\ \A j \in 1..(k - 1) : ~IsH1(lines[j])
  ELSE 0

\* the title and line of the H1 line at index k of "lines" (0: there is none);
\* null is [found |-> FALSE]
H1TitleAt(lines, k) ==
  IF k = 0 THEN [found |-> FALSE]
  ELSE [found |-> TRUE,
        title |-> trim(SubSeq(trim(lines[k]), 3, Len(trim(lines[k])))),
        line |-> k]

extractH1Title(content) ==
  IF content = <<>> THEN [found |-> FALSE]
  ELSE H1TitleAt(split(content), FirstH1(split(content)))

titleMatchesQuery(title, q, caseSensitive) ==
  IF title = <<>> \/ q = <<>> THEN FALSE
  ELSE IF caseSensitive THEN includes(title, q)
  ELSE includes(toLowerCase(title), toLowerCase(q))

\* the backquote character (TLA+ strings cannot hold one)
Backquote == "backquote"

\* the code fence that removeCodeBlocks looks for: three backquotes
Fence == <<Backquote, Backquote, Backquote>>

RECURSIVE FindFrom(_, _, _)
FindFrom(h, s, i) ==
  IF i + Len(s) - 1 > Len(h) THEN 0
  ELSE IF OccursAt(h, s, i) THEN i ELSE FindFrom(h, s, i + 1)

\* content.replace(/FENCE[\s\S]*?FENCE/g, '')
RECURSIVE removeCodeBlocks(_)
removeCodeBlocks(content) ==
  LET open == FindFrom(content, Fence, 1)
      close == IF open = 0 THEN 0 ELSE FindFrom(content, Fence, open + 3)
  IN IF open = 0 \/ close = 0 THEN content
     ELSE SubSeq(content, 1, open - 1) \o removeCodeBlocks(SubSeq(content, close + 3, Len(content)))

\* the lookahead class [a-zA-Z0-9_\-+\/] and the tag class, which adds '.'
IsTagTail(c) == IsWordChar(c) \/ c \in {"-", "+", "/"}
IsTagChar(c) == IsTagTail(c) \/ c = "."

\* tag.replace(/\.+$/, '')
RECURSIVE StripTrailingDots(_)
StripTrailingDots(t) ==
  IF t # <<>> /\ t[Len(t)] = "." THEN StripTrailingDots(SubSeq(t, 1, Len(t) - 1)) ELSE t

\* whether /(?:^|[^#\w])#([...]+?)(?=[^...]|$)/m matches starting at position s:
\* the position of the '#', or 0
HashAt(c, s) ==
  IF /\ (s = 1 \/ c[s - 1] = "\n")
     /\ c[s] = "#" /\ s + 1 <= Len(c) /\ IsTagChar(c[s + 1])
  THEN s
  ELSE IF /\ c[s] # "#" /\ ~IsWordChar(c[s])
          /\ s + 2 <= Len(c) /\ c[s + 1] = "#" /\ IsTagChar(c[s + 2])
  THEN s + 1
  ELSE 0

\* the exec loop of extractInlineTags over text c from position s
RECURSIVE ScanInlineTags(_, _)
ScanInlineTags(c, s) ==
  IF s > Len(c) THEN <<>>
  ELSE LET h == HashAt(c, s)
       IN IF h = 0 THEN ScanInlineTags(c, s + 1)
          ELSE LET tagChars == { x \in Range(c) : IsTagTail(x) }
                   e == SkipWhile(c, h + 2, tagChars)
                   tag == StripTrailingDots(SubSeq(c, h + 1, e - 1))
               IN (IF tag # <<>> THEN <<tag>> ELSE <<>>) \o ScanInlineTags(c, e)

extractInlineTags(content) == ScanInlineTags(removeCodeBlocks(content), 1)

\* The notes of this model carry no frontmatter block (no content starts with
\* "---"), so the function returns at its first test; the tag formats of a
\* frontmatter block are outside the model.
extractFrontmatterTags(content) == <<>>

\* Array.from(new Set(...)): first occurrences, in order
RECURSIVE Unique(_)
Unique(s) ==
  IF s = <<>> THEN <<>>
  ELSE LET r == Unique(SubSeq(s, 1, Len(s) - 1))
       IN IF s[Len(s)] \in Range(r) THEN r ELSE Append(r, s[Len(s)])

extractTags(content) ==
  IF content = <<>> THEN <<>>
  ELSE Unique(extractFrontmatterTags(content) \o extractInlineTags(content))

\* ------------------------------------------------------------------
\* search: line matchers
\* ------------------------------------------------------------------

\* content.split('\n').map((line, index) => ({line: index + 1, content: line.trim()}))
AllLines(content) ==
  LET lines == split(content) IN [k \in 1..Len(lines) |-> [line |-> k, content |-> trim(lines[k])]]

\* the matches of the lines whose 1-based numbers are in "hits", in ascending
\* order, with context when asked for; termOf[k] is the string highlighted on
\* line k
RECURSIVE MatchesOf(_, _, _, _, _)
MatchesOf(lines, k, hits, termOf, options) ==
  IF k > Len(lines) THEN <<>>
  ELSE IF k \in hits THEN
    LET match == [line |-> k, content |-> trim(lines[k])]
    IN <<IF options.includeContext
         THEN formatContextResult(match, extractContextLines(lines, k - 1, options.contextLines),
                                  termOf[k])
         ELSE match>> \o MatchesOf(lines, k + 1, hits, termOf, options)
  ELSE MatchesOf(lines, k + 1, hits, termOf, options)

findMatchesInContent(content, q, caseSensitive, options) ==
  IF content = <<>> THEN <<>>
  ELSE IF q = <<>> THEN AllLines(content)
  ELSE LET lines == split(content)
           searchQuery == IF caseSensitive THEN q ELSE toLowerCase(q)
           hits == { k \in DOMAIN lines :
                       includes(IF caseSensitive THEN lines[k] ELSE toLowerCase(lines[k]),
                                searchQuery) }
       IN MatchesOf(lines, 1, hits, [k \in hits |-> q], options)

\* the text "[Document matches tag: " of the summary line of a tag search
TagSummaryPrefix ==
  <<"[","D","o","c","u","m","e","n","t"," ","m","a","t","c","h","e","s"," ","t","a","g",":"," ">>

\* the result is [kind |-> "ok", matches |-> ...], or [kind |-> "error"] when
\* parseSearchQuery throws
\* a faulty variant of TermLineMatches: the lines are compared as written,
\* whatever caseSensitive says
TermLineMatchesExact(terms, lines, caseSensitive, options) ==
  LET TermHits(k, t) == includes(lines[k], t)
      hits == { k \in DOMAIN lines : \E n \in DOMAIN terms : TermHits(k, terms[n]) }
      termOf == [k \in hits |->
                   terms[CHOOSE n \in DOMAIN terms :
                           /\ TermHits(k, terms[n])
                           /\ \A m \in 1..(n - 1) : ~TermHits(k, terms[m])]]
  IN MatchesOf(lines, 1, hits, termOf, options)

\* the lines that hold one of "terms", each highlighted for the first term it holds
TermLineMatches(terms, lines, caseSensitive, options) ==
  LET TermHits(k, t) ==
        IF caseSensitive THEN includes(lines[k], t)
        ELSE includes(toLowerCase(lines[k]), toLowerCase(t))
      hits == { k \in DOMAIN lines : \E n \in DOMAIN terms : TermHits(k, terms[n]) }
      termOf == [k \in hits |->
                   terms[CHOOSE n \in DOMAIN terms :
                           /\ TermHits(k, terms[n])
                           /\ \A m \in 1..(n - 1) : ~TermHits(k, terms[m])]]
  IN MatchesOf(lines, 1, hits, termOf, options)

\* a faulty variant of TitleLineMatches: every line that holds the value
TitleLineMatchesAnywhere(expression, lines, titleMatch, options) ==
  TermLineMatches(<<expression.value>>, lines, FALSE, options)

\* the title line of a pure title search
TitleLineMatches(expression, lines, titleMatch, options) ==
  MatchesOf(lines, 1, {titleMatch} \cap DOMAIN lines,
            [k \in {titleMatch} \cap DOMAIN lines |-> expression.value], options)

\* the matches of a document that satisfies "expression"
ExpressionMatches(expression, lines, caseSensitive, options) ==
  IF expression.type = "FIELD" /\ expression.field = W_title THEN
    TitleLineMatches(expression, lines, FirstH1(lines), options)
  ELSE IF expression.type = "FIELD" /\ expression.field = W_tag THEN
    <<[line |-> 1, content |-> TagSummaryPrefix \o expression.value \o <<"]">>]>>
  ELSE TermLineMatches(extractSearchTerms(expression), lines, caseSensitive, options)

\* findMatchesWithOperators after parseSearchQuery returned or threw p
ParsedMatches(p, content, metadata, caseSensitive, options) ==
  IF p.kind = "error" THEN [kind |-> "error", error |-> p.error]
  ELSE IF p.kind = "null" THEN [kind |-> "ok", matches |-> AllLines(content)]
  ELSE IF ~evaluateExpression(p.tree, content, metadata) THEN [kind |-> "ok", matches |-> <<>>]
  ELSE [kind |-> "ok",
        matches |-> ExpressionMatches(p.tree, split(content), caseSensitive, options)]

findMatchesWithOperators(content, q, metadata, caseSensitive, options) ==
  IF content = <<>> THEN [kind |-> "ok", matches |-> <<>>]
  ELSE ParsedMatches(parseSearchQuery(q), content, metadata, caseSensitive, options)

\* ------------------------------------------------------------------
\* search: aggregation
\* ------------------------------------------------------------------

\* s.replace(/\/$/, '')
DropTrailingSlash(s) ==
  IF s # <<>> /\ s[Len(s)] = "/" THEN SubSeq(s, 1, Len(s) - 1) ELSE s

makeRelativePath(absolutePath, basePath) ==
  IF absolutePath = <<>> \/ basePath = <<>> THEN absolutePath
  ELSE LET normalizedBase == DropTrailingSlash(basePath)
           normalizedPath == DropTrailingSlash(absolutePath)
       IN IF startsWith(normalizedPath, normalizedBase \o <<"/">>)
          THEN SubSeq(normalizedPath, Len(normalizedBase) + 2, Len(normalizedPath))
          ELSE absolutePath

\* the per-file cap of transformSearchResults: matches.slice(0, 5)
MaxMatchesPerFile == 5

RECURSIVE SumOf(_)
SumOf(ns) == IF ns = <<>> THEN 0 ELSE ns[1] + SumOf(Tail(ns))

\* a faulty variant of transformSearchResults: every match is listed
transformSearchResultsUncut(fileMatches, basePath) ==
  [files |-> [k \in 1..Len(fileMatches) |->
                [path |-> makeRelativePath(fileMatches[k].file, basePath),
                 matchCount |-> Len(fileMatches[k].matches),
                 matches |-> fileMatches[k].matches]],
   totalMatches |-> SumOf([k \in 1..Len(fileMatches) |-> Len(fileMatches[k].matches)]),
   fileCount |-> Len(fileMatches),
   filesSearched |-> Len(fileMatches)]

\* fileMatches is a sequence of [file |-> path, matches |-> seq]
transformSearchResults(fileMatches, basePath) ==
  LET fileResults ==
        [k \in 1..Len(fileMatches) |->
           [path |-> makeRelativePath(fileMatches[k].file, basePath),
            matchCount |-> Len(fileMatches[k].matches),
            matches |-> SubSeq(fileMatches[k].matches, 1,
                               Min(MaxMatchesPerFile, Len(fileMatches[k].matches)))]]
      totalMatches == SumOf([k \in 1..Len(fileMatches) |-> Len(fileMatches[k].matches)])
  IN [files |-> fileResults,
      totalMatches |-> totalMatches,
      fileCount |-> Len(fileResults),
      filesSearched |-> Len(fileMatches)]

\* a faulty variant of LimitLoop: the file that is cut keeps all its matches
RECURSIVE LimitLoopUnsliced(_, _, _, _, _)
LimitLoopUnsliced(files, k, matchCount, limitedFiles, maxResults) ==
  IF k > Len(files) \/ matchCount >= maxResults
  THEN [files |-> limitedFiles, matchCount |-> matchCount]
  ELSE IF files[k].matchCount <= maxResults - matchCount
  THEN LimitLoopUnsliced(files, k + 1, matchCount + files[k].matchCount,
                         Append(limitedFiles, files[k]), maxResults)
  ELSE LimitLoopUnsliced(files, k + 1, maxResults,
                         Append(limitedFiles,
                                [path |-> files[k].path,
                                 matchCount |-> maxResults - matchCount,
                                 matches |-> files[k].matches,
                                 partialFile |-> TRUE]),
                         maxResults)

\* the loop of limitSearchResults from file k on, with the matches counted and
\* the files kept so far: the files kept and the matches counted at its end
RECURSIVE LimitLoop(_, _, _, _, _)
LimitLoop(files, k, matchCount, limitedFiles, maxResults) ==
  IF k > Len(files) \/ matchCount >= maxResults
  THEN [files |-> limitedFiles, matchCount |-> matchCount]
  ELSE IF files[k].matchCount <= maxResults - matchCount
  THEN LimitLoop(files, k + 1, matchCount + files[k].matchCount,
                 Append(limitedFiles, files[k]), maxResults)
  ELSE LimitLoop(files, k + 1, maxResults,
                 Append(limitedFiles,
                        [path |-> files[k].path,
                         matchCount |-> maxResults - matchCount,
                         matches |-> SubSeq(files[k].matches, 1,
                                            Min(maxResults - matchCount, Len(files[k].matches))),
                         partialFile |-> TRUE]),
                 maxResults)

\* the object limitSearchResults returns when it truncates; the message is the
\* template literal, piece by piece
TruncatedResults(searchResults, limited, maxResults) ==
  [files |-> limited.files,
   totalMatches |-> limited.matchCount,
   fileCount |-> Len(limited.files),
   filesSearched |-> searchResults.filesSearched,
   truncated |-> TRUE,
   message |-> <<"Results limited to ", ToString(maxResults), " matches across ",
                 ToString(Len(limited.files)), " files">>]

\* a faulty variant of limitSearchResults: the first test is < in place of <=
limitSearchResultsStrict(searchResults, maxResults) ==
  IF searchResults.totalMatches < maxResults THEN searchResults
  ELSE TruncatedResults(searchResults,
                        LimitLoop(searchResults.files, 1, 0, <<>>, maxResults), maxResults)

limitSearchResults(searchResults, maxResults) ==
  IF searchResults.totalMatches <= maxResults THEN searchResults
  ELSE TruncatedResults(searchResults,
                        LimitLoop(searchResults.files, 1, 0, <<>>, maxResults), maxResults)

\* Array.prototype.slice(offset, offset + limit)
slice(items, offset, limit) ==
  SubSeq(items, offset + 1, Min(Len(items), offset + limit))

\* pagination of a list: the page and its {total, returned, limit, offset, hasMore}
paginateArray(items, limit, offset) ==
  LET page == slice(items, offset, limit)
  IN [items |-> page,
      pagination |-> [total |-> Len(items),
                      returned |-> Len(page),
                      limit |-> limit,
                      offset |-> offset,
                      hasMore |-> offset + Len(page) < Len(items)]]

\* all per-file matches as one sequence of [path, match], file order then line order
RECURSIVE Flatten(_)
Flatten(files) ==
  IF files = <<>> THEN <<>>
  ELSE [k \in 1..Len(files[1].matches) |-> [path |-> files[1].path, match |-> files[1].matches[k]]]
       \o Flatten(Tail(files))

\* the sliced matches regrouped into per-file buckets, file order kept
RECURSIVE Regroup(_)
Regroup(flat) ==
  IF flat = <<>> THEN <<>>
  ELSE LET rest == Regroup(SubSeq(flat, 1, Len(flat) - 1))
           last == flat[Len(flat)]
       IN IF rest # <<>> /\ rest[Len(rest)].path = last.path
          THEN [rest EXCEPT ![Len(rest)] =
                  [path |-> last.path,
                   matchCount |-> @.matchCount + 1,
                   matches |-> Append(@.matches, last.match)]]
          ELSE Append(rest, [path |-> last.path, matchCount |-> 1, matches |-> <<last.match>>])

paginateSearchResults(searchResults, limit, offset) ==
  LET page == paginateArray(Flatten(searchResults.files), limit, offset)
      files == Regroup(page.items)
  IN [files |-> files,
      totalMatches |-> Len(page.items),
      fileCount |-> Len(files),
      filesSearched |-> searchResults.filesSearched,
      pagination |-> page.pagination]

\* ------------------------------------------------------------------
\* validation, paths
\* ------------------------------------------------------------------

\* a missing (undefined) argument
Undefined == <<"undefined">>

validateRequiredParameters(param) == param # Undefined

\* 10 * 1024 * 1024
maxFileSize == 10485760

validateFileSize(size, maxSize) == size >= 0 /\ size <= maxSize

DotMd == <<".", "m", "d">>

validateMarkdownExtension(filePath) ==
  filePath # <<>> /\ endsWith(toLowerCase(filePath), DotMd)

isAbsolute(p) == p # <<>> /\ p[1] = "/"

\* the segments of a path with '', '.' dropped and '..' resolved
RECURSIVE NormalizeSegments(_, _)
NormalizeSegments(segs, acc) ==
  IF segs = <<>> THEN acc
  ELSE IF segs[1] = <<>> \/ segs[1] = <<".">> THEN NormalizeSegments(Tail(segs), acc)
  ELSE IF segs[1] = <<".", ".">>
       THEN NormalizeSegments(Tail(segs), IF acc = <<>> THEN acc ELSE SubSeq(acc, 1, Len(acc) - 1))
  ELSE NormalizeSegments(Tail(segs), Append(acc, segs[1]))

\* the normal form of an absolute path
NormalizeAbs(p) == <<"/">> \o joinWith(NormalizeSegments(splitOn(p, "/"), <<>>), "/")

\* path.resolve(basePath, targetPath) for an absolute basePath
resolve(basePath, targetPath) ==
  IF isAbsolute(targetPath) THEN NormalizeAbs(targetPath)
  ELSE NormalizeAbs(basePath \o <<"/">> \o targetPath)

\* path.join(basePath, targetPath) for an absolute basePath
pathJoin(basePath, targetPath) == NormalizeAbs(basePath \o <<"/">> \o targetPath)

\* a faulty variant of validatePathWithinBase: the resolved path is compared
\* with the base without the separator after it
validatePathWithinBaseByPrefix(basePath, targetPath) ==
  IF basePath = <<>> THEN [valid |-> FALSE]
  ELSE IF targetPath = <<>> THEN [valid |-> TRUE, resolvedPath |-> resolve(basePath, <<>>)]
  ELSE IF isAbsolute(targetPath) /\ ~startsWith(targetPath, basePath) THEN [valid |-> FALSE]
  ELSE IF ~startsWith(resolve(basePath, targetPath), resolve(basePath, <<>>))
  THEN [valid |-> FALSE]
  ELSE [valid |-> TRUE, resolvedPath |-> resolve(basePath, targetPath)]

validatePathWithinBase(basePath, targetPath) ==
  IF basePath = <<>> THEN [valid |-> FALSE]
  ELSE IF targetPath = <<>> THEN [valid |-> TRUE, resolvedPath |-> resolve(basePath, <<>>)]
  ELSE IF isAbsolute(targetPath) /\ ~startsWith(targetPath, basePath) THEN [valid |-> FALSE]
  ELSE LET normalizedBase == resolve(basePath, <<>>)
           normalizedTarget == resolve(basePath, targetPath)
       IN IF /\ ~startsWith(normalizedTarget, normalizedBase \o <<"/">>)
             /\ normalizedTarget # normalizedBase
          THEN [valid |-> FALSE]
          ELSE [valid |-> TRUE, resolvedPath |-> normalizedTarget]

\* ------------------------------------------------------------------
\* the filesystem
\* ------------------------------------------------------------------

\* a path that holds no file
NoFile == [exists |-> FALSE]

\* a file: its text, the size stat reports, and whether stat and readFile succeed
File(content, size, statOk, readOk) ==
  [exists |-> TRUE, content |-> content, size |-> size, statOk |-> statOk, readOk |-> readOk]

\* the files glob finds for  <dir>/**/*.md, as a set (glob fixes no order)
globSet(files, dir) ==
  { f \in DOMAIN files :
      /\ files[f].exists
      /\ startsWith(f, DropTrailingSlash(dir) \o <<"/">>)
      /\ endsWith(f, DotMd) }

\* every order in which glob may return the files of a set
Orders(S) ==
  { o \in [1..Cardinality(S) -> S] : \A i, j \in 1..Cardinality(S) : i # j => o[i] # o[j] }

\* Array.prototype.sort() on strings: insertion into a sorted sequence
RECURSIVE InsertSorted(_, _)
InsertSorted(sorted, x) ==
  IF sorted = <<>> THEN <<x>>
  ELSE IF StrLess(x, sorted[1]) THEN <<x>> \o sorted
  ELSE <<sorted[1]>> \o InsertSorted(Tail(sorted), x)

RECURSIVE sort(_)
sort(items) ==
  IF items = <<>> THEN <<>> ELSE InsertSorted(sort(SubSeq(items, 1, Len(items) - 1)), items[Len(items)])

\* the position of the first character of an AND, OR or NOT standing between
\* word boundaries: /\b(AND|OR|NOT)\b/
HasKeyword(q, w) ==
  \E i \in 1..Len(q) :
    /\ OccursAt(q, w, i)
    /\ (i = 1 \/ ~IsWordChar(q[i - 1]))
    /\ (i + Len(w) > Len(q) \/ ~IsWordChar(q[i + Len(w)]))

\* /\b(AND|OR|NOT)\b|[:\-()]|"/.test(query)
hasOperators(q) ==
  \/ HasKeyword(q, W_AND) \/ HasKeyword(q, W_OR) \/ HasKeyword(q, W_NOT)
  \/ \E i \in DOMAIN q : q[i] \in {":", "-", "(", ")", "\""}

\* ------------------------------------------------------------------
\* tools: searchVault, searchByTitle
\* ------------------------------------------------------------------

\* the body of the loop of searchVault for one file: the matches to record, or
\* <<>> when the file is skipped (too large, a failing stat or read, or an
\* exception of the matcher, all swallowed by the catch)
\* metadata = {title: titleData?.title || '', tags: extractTags(content)}
Metadata(content, titleData) ==
  [title |-> IF titleData.found THEN titleData.title ELSE <<>>, tags |-> extractTags(content)]

\* try { matches = findMatchesWithOperators(...) } catch (error) { /* skip the file */ }
CaughtMatches(r) == IF r.kind = "error" THEN <<>> ELSE r.matches

\* a faulty variant of FileSearch: the size of the file is not tested
FileSearchAnySize(f, q, caseSensitive, contextOptions) ==
  IF ~f.statOk \/ ~f.readOk THEN <<>>
  ELSE IF hasOperators(q) THEN
    CaughtMatches(findMatchesWithOperators(f.content, q, Metadata(f.content, extractH1Title(f.content)),
                                           caseSensitive, contextOptions))
  ELSE findMatchesInContent(f.content, q, caseSensitive, contextOptions)

FileSearch(f, q, caseSensitive, contextOptions) ==
  IF ~f.statOk THEN <<>>
  ELSE IF ~validateFileSize(f.size, maxFileSize) THEN <<>>
  ELSE IF ~f.readOk THEN <<>>
  ELSE IF hasOperators(q) THEN
    CaughtMatches(findMatchesWithOperators(f.content, q, Metadata(f.content, extractH1Title(f.content)),
                                           caseSensitive, contextOptions))
  ELSE findMatchesInContent(f.content, q, caseSensitive, contextOptions)

\* if (matches.length > 0) fileMatches.push({file, matches})
PushFileMatches(file, matches) ==
  IF Len(matches) > 0 THEN <<[file |-> file, matches |-> matches]>> ELSE <<>>

\* for (const file of files) { ... }
RECURSIVE CollectFileMatches(_, _, _, _, _)
CollectFileMatches(files, paths, q, caseSensitive, contextOptions) ==
  IF paths = <<>> THEN <<>>
  ELSE PushFileMatches(paths[1], FileSearch(files[paths[1]], q, caseSensitive, contextOptions))
       \o CollectFileMatches(files, Tail(paths), q, caseSensitive, contextOptions)

\* a faulty variant of SortFiles: the files stay in the order glob returned them
SortFilesSkipped(found) == found

\* files.sort() in searchVault and searchByTitle
SortFiles(found) == sort(found)

\* searchVault over the filesystem "files"; "found" is what glob returned, in
\* the order it returned it
searchVault(files, vaultPath, q, searchPath, caseSensitive, contextOptions, limit, offset, found) ==
  IF ~validateRequiredParameters(q) THEN [kind |-> "error", code |-> "invalidParams"]
  ELSE IF searchPath # <<>> /\ ~validatePathWithinBase(vaultPath, searchPath).valid
    THEN [kind |-> "error", code |-> "accessDenied"]
  ELSE LET sorted == SortFiles(found)
           fileMatches == CollectFileMatches(files, sorted, q, caseSensitive, contextOptions)
           results == transformSearchResults(fileMatches, vaultPath)
       IN [kind |-> "ok", result |-> paginateSearchResults(results, limit, offset)]

\* the directory searchVault hands to glob
SearchDir(vaultPath, searchPath) ==
  IF searchPath # <<>> THEN pathJoin(vaultPath, searchPath) ELSE pathJoin(vaultPath, <<>>)

transformTitleResults(fileTitleMatches, basePath) ==
  LET results == [k \in 1..Len(fileTitleMatches) |->
                    [file |-> makeRelativePath(fileTitleMatches[k].file, basePath),
                     title |-> fileTitleMatches[k].titleInfo.title,
                     line |-> fileTitleMatches[k].titleInfo.line]]
  IN [results |-> results, count |-> Len(results), filesSearched |-> Len(fileTitleMatches)]

\* the body of the loop of searchByTitle for one file
PushTitleMatch(file, f, titleInfo, q, caseSensitive) ==
  IF /\ f.statOk /\ validateFileSize(f.size, maxFileSize) /\ f.readOk
     /\ titleInfo.found /\ titleMatchesQuery(titleInfo.title, q, caseSensitive)
  THEN <<[file |-> file, titleInfo |-> titleInfo]>>
  ELSE <<>>

RECURSIVE CollectTitleMatches(_, _, _, _)
CollectTitleMatches(files, paths, q, caseSensitive) ==
  IF paths = <<>> THEN <<>>
  ELSE PushTitleMatch(paths[1], files[paths[1]], extractH1Title(files[paths[1]].content),
                      q, caseSensitive)
       \o CollectTitleMatches(files, Tail(paths), q, caseSensitive)

\* the response of searchByTitle for the page of its results
TitlePage(page, filesSearched) ==
  [kind |-> "ok",
   result |-> [results |-> page.items,
               count |-> Len(page.items),
               filesSearched |-> filesSearched,
               pagination |-> page.pagination]]

\* a faulty variant of searchByTitle: the offset is dropped and every request
\* gets the first page
searchByTitleFirstPage(files, vaultPath, q, searchPath, caseSensitive, limit, offset, found) ==
  IF ~validateRequiredParameters(q) THEN [kind |-> "error", code |-> "invalidParams"]
  ELSE IF q = <<>> \/ trim(q) = <<>> THEN [kind |-> "error", code |-> "invalidParams"]
  ELSE IF searchPath # <<>> /\ ~validatePathWithinBase(vaultPath, searchPath).valid
    THEN [kind |-> "error", code |-> "accessDenied"]
  ELSE TitlePage(paginateArray(
                   transformTitleResults(
                     CollectTitleMatches(files, SortFiles(found), q, caseSensitive),
                     vaultPath).results,
                   limit, 0),
                 Len(SortFiles(found)))

searchByTitle(files, vaultPath, q, searchPath, caseSensitive, limit, offset, found) ==
  IF ~validateRequiredParameters(q) THEN [kind |-> "error", code |-> "invalidParams"]
  ELSE IF q = <<>> \/ trim(q) = <<>> THEN [kind |-> "error", code |-> "invalidParams"]
  ELSE IF searchPath # <<>> /\ ~validatePathWithinBase(vaultPath, searchPath).valid
    THEN [kind |-> "error", code |-> "accessDenied"]
  ELSE TitlePage(paginateArray(
                   transformTitleResults(
                     CollectTitleMatches(files, SortFiles(found), q, caseSensitive),
                     vaultPath).results,
                   limit, offset),
                 Len(SortFiles(found)))

\* ------------------------------------------------------------------
\* State
\* ------------------------------------------------------------------

VARIABLES
  fs,      \* the filesystem: path -> file or NoFile
  resp,    \* the last request served and its response
  pager,   \* a client reading a search page by page
  io       \* the note requests in flight, each at an await of its handler

vars == <<fs, resp, pager, io>>

IdleReader == [state |-> "idle"]

IdleWriter == [state |-> "idle"]

NoIo == [reader |-> IdleReader, writer |-> IdleWriter]

\* ------------------------------------------------------------------
\* The vault of the search specification
\* ------------------------------------------------------------------

vaultPath == <<"/", "v">>

P_a == <<"/","v","/","a",".","m","d">>
P_b == <<"/","v","/","b",".","m","d">>
P_sub == <<"/","v","/","a","/","c",".","m","d">>
P_txt == <<"/","v","/","n",".","t","x","t">>

\* the number of lines of the long note
LongLines == 6

\* n lines "a"
LinesOfA(n) == join([k \in 1..n |-> <<"a">>])

NoteTexts ==
  { <<"a">>,
    <<"b">>,
    <<"a", "\n", "b">>,
    <<"#", " ", "A", " ", "b", "\n", "c", "\n", "a">>,
    LinesOfA(LongLines) }

Readable(c) == File(c, Len(c), TRUE, TRUE)

\* what a path of the vault may hold: nothing, a readable note, a note larger
\* than maxFileSize, a note whose stat fails, a note whose read fails
FileChoices ==
  {NoFile} \cup { Readable(c) : c \in NoteTexts }
  \cup { File(<<"a">>, maxFileSize + 1, TRUE, TRUE),
         File(<<"a">>, 1, FALSE, TRUE),
         File(<<"a">>, 1, TRUE, FALSE) }

SearchQueries ==
  { Undefined,
    <<>>,
    <<"a">>,
    <<"a", " ", "b">>,
    <<"a", " ", "A", "N", "D", " ", "b">>,
    <<"a", " ", "&", "&", " ", "b">>,
    <<"a", " ", "O", "R", " ", "b">>,
    <<"a", " ", "|", "|", " ", "b">>,
    <<"a", " ", "A", "N", "D">>,
    <<"O", "R", " ", "a">>,
    <<"N", "O", "T">>,
    <<"(", ")">>,
    <<"-", "b">>,
    <<"t", "i", "t", "l", "e", ":", "a">> }

TitleQueries == { Undefined, <<" ">>, <<"a">>, <<"B">> }

\* the queries the paging client asks
PagerQueries == { <<"a">>, <<"a", " ", "O", "R", " ", "b">> }

SearchPaths == { <<>>, <<"a">>, <<".", ".">> }

\* the largest page size a request of the model asks for
MaxLimit == 3

\* limit = 100, offset = 0: the defaults of searchVault and searchByTitle
DefaultLimit == 100

Limits == 1..MaxLimit \cup {DefaultLimit}

Offsets == 0..MaxLimit

NoResp == [op |-> "none"]

IdlePager == [state |-> "idle"]

\* what each path of the vault may hold at the start
InitialFiles ==
  [ a : FileChoices,
    b : {NoFile, Readable(<<"b">>), Readable(<<"#", " ", "A", " ", "b", "\n", "c", "\n", "a">>),
         Readable(LinesOfA(LongLines))},
    sub : {NoFile, Readable(<<"#", " ", "a", "\n", "b">>)} ]

InitSearch ==
  /\ \E c \in InitialFiles :
       fs = [p \in {P_a, P_b, P_sub, P_txt} |->
               IF p = P_a THEN c.a ELSE IF p = P_b THEN c.b ELSE IF p = P_sub THEN c.sub
               ELSE Readable(<<"a">>)]
  /\ resp = NoResp
  /\ pager = IdlePager
  /\ io = NoIo

\* The server keeps no state between searches (each one rescans the files), so
\* a behaviour of the search specification is one request, or one client
\* reading one query page by page.
Fresh == resp = NoResp /\ pager = IdlePager

\* the record of a served search request
Served(op, q, searchPath, caseSensitive, limit, offset, found, out) ==
  [op |-> op, q |-> q, searchPath |-> searchPath, caseSensitive |-> caseSensitive,
   limit |-> limit, offset |-> offset, found |-> found, out |-> out]

\* a search-vault request with the default limit and offset
SearchVault ==
  /\ Fresh
  /\ \E q \in SearchQueries, searchPath \in SearchPaths, caseSensitive \in BOOLEAN :
       \E found \in Orders(globSet(fs, SearchDir(vaultPath, searchPath))) :
         resp' = Served("search-vault", q, searchPath, caseSensitive, DefaultLimit, 0, found,
                        searchVault(fs, vaultPath, q, searchPath, caseSensitive,
                                    DefaultOptions, DefaultLimit, 0, found))
  /\ UNCHANGED <<fs, pager, io>>

\* a search-vault request for the page at some offset
SearchVaultPage ==
  /\ Fresh
  /\ \E q \in PagerQueries, limit \in 1..MaxLimit, offset \in Offsets :
       \E found \in Orders(globSet(fs, SearchDir(vaultPath, <<>>))) :
         resp' = Served("search-vault", q, <<>>, FALSE, limit, offset, found,
                        searchVault(fs, vaultPath, q, <<>>, FALSE,
                                    DefaultOptions, limit, offset, found))
  /\ UNCHANGED <<fs, pager, io>>

\* a search-by-title request
SearchByTitle ==
  /\ Fresh
  /\ \E q \in TitleQueries, caseSensitive \in BOOLEAN, limit \in Limits, offset \in Offsets :
       \E found \in Orders(globSet(fs, SearchDir(vaultPath, <<>>))) :
         resp' = Served("search-by-title", q, <<>>, caseSensitive, limit, offset, found,
                        searchByTitle(fs, vaultPath, q, <<>>, caseSensitive,
                                      limit, offset, found))
  /\ UNCHANGED <<fs, pager, io>>

\* a client starts to read the matches of a query page by page
PagerStart ==
  /\ Fresh
  /\ \E q \in PagerQueries, limit \in 1..MaxLimit :
    /\ pager' = [state |-> "paging", q |-> q, limit |-> limit, offset |-> 0, acc |-> <<>>]
    /\ UNCHANGED <<fs, resp, io>>

\* the client requests the page at its offset and appends the matches; it goes
\* on at offset + limit while hasMore
PagerNext ==
  /\ pager.state = "paging"
  /\ \E found \in Orders(globSet(fs, SearchDir(vaultPath, <<>>))) :
       \E r \in {searchVault(fs, vaultPath, pager.q, <<>>, FALSE, DefaultOptions,
                               pager.limit, pager.offset, found)} :
          /\ resp' = Served("search-vault", pager.q, <<>>, FALSE, pager.limit, pager.offset, found, r)
          /\ pager' = [pager EXCEPT
                         !.acc = @ \o Flatten(r.result.files),
                         !.offset = @ + pager.limit,
                         !.state = IF r.result.pagination.hasMore THEN "paging" ELSE "done"]
  /\ UNCHANGED <<fs, io>>

NextSearch == SearchVault \/ SearchVaultPage \/ SearchByTitle \/ PagerStart \/ PagerNext

SpecSearch == InitSearch /\ [][NextSearch]_vars

\* ------------------------------------------------------------------
\* Properties of the search specification
\* ------------------------------------------------------------------

\* the response in resp is that of a search-vault request
ServedSearchVault == resp.op = "search-vault"

\* the response in resp is that of a search-by-title request
ServedSearchByTitle == resp.op = "search-by-title"

\* queries with malformed boolean syntax: a dangling operator, an operator
\* with a missing operand, empty parentheses
MalformedQueries ==
  { <<"a", " ", "A", "N", "D">>, <<"O", "R", " ", "a">>, <<"N", "O", "T">>, <<"(", ")">> }

\* C1: a search-vault query with malformed boolean syntax makes searchVault
\* fail with an error that reaches the caller; the response is never a normal
\* result.
C1_MalformedQueryFails ==
  (ServedSearchVault /\ resp.q \in MalformedQueries /\ resp.found # <<>>) =>
    resp.out.kind = "error"

Q_a_AND_b == <<"a", " ", "A", "N", "D", " ", "b">>
Q_a_AMP_b == <<"a", " ", "&", "&", " ", "b">>
Q_a_OR_b == <<"a", " ", "O", "R", " ", "b">>
Q_a_BAR_b == <<"a", " ", "|", "|", " ", "b">>

\* the query that spells the symbolic operator of q as a keyword
Keyworded(q) == IF q = Q_a_AMP_b THEN Q_a_AND_b ELSE Q_a_OR_b

\* C2: search-vault with query 'x && y' returns the same result as with
\* 'x AND y', and with 'x || y' the same result as with 'x OR y', for every
\* corpus.
C2_SymbolicOperatorsAccepted ==
  (ServedSearchVault /\ resp.q \in {Q_a_AMP_b, Q_a_BAR_b}) =>
    resp.out = searchVault(fs, vaultPath, Keyworded(resp.q), resp.searchPath, resp.caseSensitive,
                           DefaultOptions, resp.limit, resp.offset, resp.found)

\* the markdown files below the vault, in ascending path order
VaultFiles == SortFiles(CHOOSE o \in Orders(globSet(fs, SearchDir(vaultPath, <<>>))) : TRUE)

\* every matching line of every file for query q, file order then line order
FullMatchList(q) ==
  Flatten([k \in 1..Len(CollectFileMatches(fs, VaultFiles, q, FALSE, DefaultOptions)) |->
             [path |-> makeRelativePath(
                         CollectFileMatches(fs, VaultFiles, q, FALSE, DefaultOptions)[k].file,
                         vaultPath),
              matches |-> CollectFileMatches(fs, VaultFiles, q, FALSE, DefaultOptions)[k].matches]])

\* C5: the pages at offsets 0, limit, 2*limit, ... until hasMore is false,
\* concatenated, are the full unpaginated match list: every matching line of
\* every file, in file order then line order, each exactly once.
C5_PagesReproduceFullList ==
  pager.state = "done" => pager.acc = FullMatchList(pager.q)

\* the full ordered result list behind the response in resp: the matches of
\* the aggregated search result, or the matching titles
FullResultList ==
  IF ServedSearchVault
  THEN Flatten(transformSearchResults(
                 CollectFileMatches(fs, SortFiles(resp.found), resp.q, resp.caseSensitive,
                                    DefaultOptions),
                 vaultPath).files)
  ELSE transformTitleResults(
         CollectTitleMatches(fs, SortFiles(resp.found), resp.q, resp.caseSensitive),
         vaultPath).results

\* the items of the response in resp
PageItems ==
  IF ServedSearchVault THEN Flatten(resp.out.result.files) ELSE resp.out.result.results

\* items and pagination are the page [offset, offset + limit) of full
IsPageOf(items, pagination, full, limit, offset) ==
  /\ Len(items) = Min(limit, Max(0, Len(full) - offset))
  /\ \A i \in 1..Len(items) : items[i] = full[offset + i]
  /\ pagination.total = Len(full)
  /\ pagination.returned = Len(items)
  /\ pagination.returned <= limit
  /\ pagination.hasMore = (offset + pagination.returned < pagination.total)

C9_FilesSearchedCountsAllFiles ==
  (ServedSearchVault /\ resp.out.kind = "ok") =>
    resp.out.result.filesSearched = Len(resp.found)

\* strictly ascending paths
PathsAscending(files) ==
  \A k \in 1..(Len(files) - 1) : StrLess(files[k].path, files[k + 1].path)

\* strictly ascending line numbers
LinesAscending(matches) ==
  \A k \in 1..(Len(matches) - 1) : matches[k].line < matches[k + 1].line

Pieces ==
  { <<"a">>, <<"b">>, <<" ">>,
    <<" ", "A", "N", "D", " ">>, <<" ", "O", "R", " ">>, <<"N", "O", "T", " ">>,
    <<"&", "&">>, <<" ", "&", "&", " ">>, <<"|", "|">>, <<" ", "|", "|", " ">>,
    <<"-">>, <<"(">>, <<")">>, <<"\"">>, <<"t", "i", "t", "l", "e", ":">> }

\* the largest number of pieces of a query
MaxPieces == 3

NoFiles == [p \in {} |-> NoFile]

InitParse ==
  /\ fs = NoFiles
  /\ resp = [op |-> "typing", q |-> <<>>, pieces |-> 0]
  /\ pager = IdlePager
  /\ io = NoIo

\* the caller extends the query
TypePiece ==
  /\ resp.op = "typing"
  /\ resp.pieces < MaxPieces
  /\ \E piece \in Pieces :
       resp' = [op |-> "typing", q |-> resp.q \o piece, pieces |-> resp.pieces + 1]
  /\ UNCHANGED <<fs, pager, io>>

\* parseSearchQuery(query), with the tokens it builds the tree from
ParseQuery ==
  /\ resp.op = "typing"
  /\ resp' = [op |-> "parsed", q |-> resp.q,
              tokens |-> tokenizeQuery(resp.q),
              out |-> parseSearchQuery(resp.q)]
  /\ UNCHANGED <<fs, pager, io>>

NextParse == TypePiece \/ ParseQuery

SpecParse == InitParse /\ [][NextParse]_vars

\* ------------------------------------------------------------------
\* Properties of the parser specification
\* ------------------------------------------------------------------

PlainWords == { <<"a">>, <<"b">> }

\* out is the tree AND(TERM a, TERM b)
IsConjunctionOf(out, a, b) ==
  out.kind = "tree" /\ out.tree = BinNode("AND", TermNode(a), TermNode(b))

\* C4 as stated: parsing 'a AND b', 'a b' and 'a&&b' each yields an AND-rooted
\* tree whose leaves are TERM a (left) and TERM b (right), for all plain words
\* a and b.
C4_UnspacedAmpersandIsAnd ==
  \A a, b \in PlainWords :
    (resp.op = "parsed" /\ resp.q \in { a \o <<" ", "A", "N", "D", " ">> \o b,
                                       a \o <<" ">> \o b,
                                       a \o <<"&", "&">> \o b })
      => IsConjunctionOf(resp.out, a, b)

\* C4, amended: parsing 'a AND b', 'a b' and 'a && b' (the symbol set off by
\* white space) each yields an AND-rooted tree whose leaves are TERM a (left)
\* and TERM b (right), for all plain words a and b.
C4_SpacedAmpersandIsAnd ==
  \A a, b \in PlainWords :
    (resp.op = "parsed" /\ resp.q \in { a \o <<" ", "A", "N", "D", " ">> \o b,
                                       a \o <<" ">> \o b,
                                       a \o <<" ", "&", "&", " ">> \o b })
      => IsConjunctionOf(resp.out, a, b)

\* the query 'a && b' parsed to AND(TERM a, TERM b)
C4_Witness ==
  /\ resp.op = "parsed"
  /\ resp.q = <<"a", " ", "&", "&", " ", "b">>
  /\ IsConjunctionOf(resp.out, <<"a">>, <<"b">>)

\* ------------------------------------------------------------------
\* The matcher specification: a document is written line by line and then
\* searched by both matchers
\* ------------------------------------------------------------------

\* the lines a document of the model is made of
DocLines ==
  { <<>>, <<"a">>, <<"b">>, <<"A">>, <<"a", "b">>, <<"a", " ", "b">>, <<" ", "b", " ", "a">>,
    <<"#", " ", "a">>, <<"#", "b">>, <<"a", "&", "&", "b">> }

\* the largest number of lines of a document
MaxDocLines == 2

MatchQueries ==
  { <<>>, <<" ">>, <<"a">>, <<"b">>, <<"a", "b">>, <<"a", " ", "b">>, <<"b", " ", "a">>,
    <<"&", "&">>, <<"a", "&", "&", "b">>,
    <<"a", " ", "O", "R", " ", "b">>, <<"-", "a">>, <<"t", "i", "t", "l", "e", ":", "a">>,
    <<"t", "a", "g", ":", "b">>, <<"a", " ", "A", "N", "D">>,
    <<"b", " ", "O", "R", " ", "-", "a">>, <<"t", "i", "t", "l", "e", ":", "a", " ", "O", "R", " ", "B">> }

InitMatch ==
  /\ fs = NoFiles
  /\ resp = [op |-> "writing", lines |-> <<>>]
  /\ pager = IdlePager
  /\ io = NoIo

\* the author adds a line to the document
AddLine ==
  /\ resp.op = "writing"
  /\ Len(resp.lines) < MaxDocLines
  /\ \E line \in DocLines : resp' = [op |-> "writing", lines |-> Append(resp.lines, line)]
  /\ UNCHANGED <<fs, pager, io>>

\* both matchers over the document, as searchVault calls them for one file
MatchDocument ==
  /\ resp.op = "writing"
  /\ resp.lines # <<>>
  /\ \E q \in MatchQueries, caseSensitive \in BOOLEAN :
       resp' = [op |-> "matched", content |-> join(resp.lines), q |-> q,
                caseSensitive |-> caseSensitive,
                plain |-> findMatchesInContent(join(resp.lines), q, caseSensitive, DefaultOptions),
                expr |-> findMatchesWithOperators(
                           join(resp.lines), q,
                           Metadata(join(resp.lines), extractH1Title(join(resp.lines))),
                           caseSensitive, DefaultOptions)]
  /\ UNCHANGED <<fs, pager, io>>

NextMatch == AddLine \/ MatchDocument

SpecMatch == InitMatch /\ [][NextMatch]_vars

\* ------------------------------------------------------------------
\* Properties of the matcher specification
\* ------------------------------------------------------------------

\* expression mode returned the matched lines of plain mode
SameMatchedLines ==
  resp.expr.kind = "ok" /\ Range(resp.expr.matches) = Range(resp.plain)

\* C3 as stated: for every query with no boolean syntax (no AND/OR/NOT keyword,
\* ':', '-', quote or parenthesis; multi-word queries included) and every
\* document, plain mode and expression mode return the same set of matched
\* lines.
C3_ModesAgreeWithoutSyntax ==
  (resp.op = "matched" /\ ~hasOperators(resp.q)) => SameMatchedLines

\* the query holds no white space and is not one of the symbols && and ||
SingleWord(q) ==
  /\ \A i \in DOMAIN q : ~IsSpace(q[i])
  /\ q \notin {W_AMPAMP, W_BARBAR}

\* C3, amended: for every query of a single word (no white space, not the
\* symbol && or ||) with no boolean syntax and every document, plain mode and
\* expression mode return the same set of matched lines.
C3_ModesAgreeOnSingleWords ==
  (resp.op = "matched" /\ ~hasOperators(resp.q) /\ SingleWord(resp.q)) => SameMatchedLines

\* a single-word query that both modes match on some but not all lines of the document
C3_Witness ==
  /\ resp.op = "matched"
  /\ ~hasOperators(resp.q) /\ SingleWord(resp.q) /\ resp.q # <<>>
  /\ resp.plain # <<>>
  /\ Len(resp.plain) < Len(split(resp.content))
  /\ SameMatchedLines

\* ------------------------------------------------------------------
\* The notes specification: read-note, write-note, delete-note,
\* get-note-metadata (single mode) and the obsidian-note:// resources over one
\* vault. A handler gives way to the other requests at each await; the steps
\* of fs.writeFile (open with truncation, writes, close) are steps of their own.
\* ------------------------------------------------------------------

\* the null character
Nul == "nul"

\* content.replace(/\0/g, '')
sanitizeContent(content) ==
  IF content = Undefined THEN <<>> ELSE SelectSeq(content, LAMBDA c : c # Nul)

\* the fields path and contentLength of extractNoteMetadata; the fields
\* derived from the text (frontmatter, title, preview, tags) are left out
extractNoteMetadata(content, path) == [path |-> path, contentLength |-> Len(content)]

P_out == <<"/", "o", ".", "m", "d">>

\* the paths a caller supplies
NotePaths ==
  { Undefined,
    <<"a", ".", "m", "d">>,
    <<"n", ".", "t", "x", "t">>,
    <<".", ".", "/", "o", ".", "m", "d">> }

\* one element of a text that stands for a run of maxFileSize characters
Block == "block"

\* the size in bytes stat() reports for a file holding the text
byteLength(content) ==
  Len(content) + (maxFileSize - 1) * Len(SelectSeq(content, LAMBDA c : c = Block))

\* the contents a caller writes; the last one is larger than maxFileSize
NoteContents == { Undefined, <<"c", "d">>, <<"e", Nul>>, <<"f", Block>> }

\* the last successful write-note or delete-note is remembered beside the
\* requests in flight; a delete-note that ran while a write-note was in flight
\* leaves "overlapped" until the next write-note starts
NoHistory == [kind |-> "none"]

Scheme == <<"o","b","s","i","d","i","a","n","-","n","o","t","e",":","/","/">>

\* the resource URIs a caller reads
Uris ==
  { Scheme \o p : p \in NotePaths \ {Undefined} } \cup { <<"f", "i", "l", "e", ":", "/", "/", "a", ".", "m", "d">> }

InitNotes ==
  /\ \E a \in {NoFile, Readable(<<"a", "b">>), File(<<"a">>, maxFileSize + 1, TRUE, TRUE)} :
       fs = [p \in {P_a, P_txt, P_out} |->
               IF p = P_a THEN a ELSE IF p = P_txt THEN Readable(<<"s">>) ELSE Readable(<<"x">>)]
  /\ resp = NoResp
  /\ pager = IdlePager
  /\ io = [reader |-> IdleReader, writer |-> IdleWriter, last |-> NoHistory]

\* the record of a served note request: "touched" holds the paths its I/O
\* calls were made on, "during" the write in flight when a read-note read the
\* file, "last" the last successful write-note or delete-note before the reply
NoteReply(op, path, out, touched, during) ==
  [op |-> op, path |-> path, out |-> out, touched |-> touched, during |-> during,
   last |-> io.last]

\* a request that fails a validation: no I/O call was made
Rejected(op, path, code) ==
  resp' = NoteReply(op, path, [kind |-> "error", code |-> code], {}, IdleWriter)

\* a request that fails at an I/O call on fullPath
Failed(op, path, code, fullPath) ==
  resp' = NoteReply(op, path, [kind |-> "error", code |-> code], {fullPath}, IdleWriter)

\* readNote from access() to the size check
ReadNoteStat(notePath, fullPath) ==
  IF ~fs[fullPath].exists \/ ~fs[fullPath].statOk
  THEN Failed("read-note", notePath, "resourceNotFound", fullPath) /\ UNCHANGED io
  ELSE IF ~validateFileSize(fs[fullPath].size, maxFileSize)
  THEN Failed("read-note", notePath, "invalidParams", fullPath) /\ UNCHANGED io
  ELSE /\ io' = [io EXCEPT !.reader = [state |-> "reading", path |-> notePath,
                                       fullPath |-> fullPath]]
       /\ UNCHANGED resp

\* readNote up to its last await before readFile
ReadNoteBegin ==
  /\ io.reader = IdleReader
  /\ \E notePath \in NotePaths :
       IF ~validateRequiredParameters(notePath)
       THEN Rejected("read-note", notePath, "invalidParams") /\ UNCHANGED io
       ELSE IF ~validateMarkdownExtension(notePath)
       THEN Rejected("read-note", notePath, "invalidParams") /\ UNCHANGED io
       ELSE IF ~validatePathWithinBase(vaultPath, notePath).valid
       THEN Rejected("read-note", notePath, "accessDenied") /\ UNCHANGED io
       ELSE ReadNoteStat(notePath, validatePathWithinBase(vaultPath, notePath).resolvedPath)
  /\ UNCHANGED <<fs, pager>>

\* readNote: readFile and the return
ReadNoteEnd ==
  /\ io.reader.state = "reading"
  /\ IF ~fs[io.reader.fullPath].exists
     THEN Failed("read-note", io.reader.path, "resourceNotFound", io.reader.fullPath)
     ELSE IF ~fs[io.reader.fullPath].readOk
     THEN Failed("read-note", io.reader.path, "internalError", io.reader.fullPath)
     ELSE resp' = NoteReply("read-note", io.reader.path,
                            [kind |-> "ok", content |-> fs[io.reader.fullPath].content],
                            {io.reader.fullPath}, io.writer)
  /\ io' = [io EXCEPT !.reader = IdleReader]
  /\ UNCHANGED <<fs, pager>>

\* writeNote: mkdir, and writeFile opens the file, creating or truncating it
WriteNoteOpen(notePath, fullPath, sanitizedContent) ==
  /\ fs' = [fs EXCEPT ![fullPath] = Readable(<<>>)]
  /\ io' = [io EXCEPT !.writer = [state |-> "writing", path |-> notePath, fullPath |-> fullPath,
                                  before |-> fs[fullPath], content |-> sanitizedContent,
                                  rest |-> sanitizedContent],
                       !.last = [kind |-> "writing"]]
  /\ UNCHANGED resp

\* writeNote up to the opening of the file
WriteNoteBegin ==
  /\ io.writer = IdleWriter
  /\ \E notePath \in NotePaths, content \in NoteContents :
       IF ~validateRequiredParameters(notePath) \/ ~validateRequiredParameters(content)
       THEN Rejected("write-note", notePath, "invalidParams") /\ UNCHANGED <<fs, io>>
       ELSE IF ~validateMarkdownExtension(notePath)
       THEN Rejected("write-note", notePath, "invalidParams") /\ UNCHANGED <<fs, io>>
       ELSE IF ~validatePathWithinBase(vaultPath, notePath).valid
       THEN Rejected("write-note", notePath, "accessDenied") /\ UNCHANGED <<fs, io>>
       ELSE WriteNoteOpen(notePath, validatePathWithinBase(vaultPath, notePath).resolvedPath,
                          sanitizeContent(content))
  /\ UNCHANGED pager

\* writeFile writes some more of the text; a file unlinked since it was
\* opened stays absent
WriteNoteChunk ==
  /\ io.writer.state = "writing"
  /\ \E n \in 1..Len(io.writer.rest) :
       /\ fs' = [fs EXCEPT ![io.writer.fullPath] =
                   IF @.exists
                   THEN File(@.content \o SubSeq(io.writer.rest, 1, n),
                             byteLength(@.content \o SubSeq(io.writer.rest, 1, n)), TRUE, TRUE)
                   ELSE @]
       /\ io' = [io EXCEPT !.writer.rest = SubSeq(@, n + 1, Len(@))]
  /\ UNCHANGED <<resp, pager>>

\* writeFile is done and writeNote returns
WriteNoteEnd ==
  /\ io.writer.state = "writing"
  /\ io.writer.rest = <<>>
  /\ resp' = NoteReply("write-note", io.writer.path, [kind |-> "ok", path |-> io.writer.path],
                       {io.writer.fullPath}, IdleWriter)
  /\ io' = [io EXCEPT !.writer = IdleWriter,
                       !.last = IF @.kind = "writing"
                                THEN [kind |-> "written", fullPath |-> io.writer.fullPath,
                                      content |-> io.writer.content]
                                ELSE @]
  /\ UNCHANGED <<fs, pager>>

\* deleteNote from access() on
DeleteNoteUnlink(notePath, fullPath) ==
  IF ~fs[fullPath].exists
  THEN Failed("delete-note", notePath, "resourceNotFound", fullPath) /\ UNCHANGED <<fs, io>>
  ELSE /\ fs' = [fs EXCEPT ![fullPath] = NoFile]
       /\ io' = [io EXCEPT !.last = IF io.writer.state = "writing"
                                    THEN [kind |-> "overlapped"]
                                    ELSE [kind |-> "deleted", fullPath |-> fullPath]]
       /\ resp' = NoteReply("delete-note", notePath, [kind |-> "ok", path |-> notePath],
                            {fullPath}, IdleWriter)

\* deleteNote; its access() and unlink() are taken in one step
DeleteNote ==
  /\ \E notePath \in NotePaths :
       IF ~validateRequiredParameters(notePath)
       THEN Rejected("delete-note", notePath, "invalidParams") /\ UNCHANGED <<fs, io>>
       ELSE IF ~validateMarkdownExtension(notePath)
       THEN Rejected("delete-note", notePath, "invalidParams") /\ UNCHANGED <<fs, io>>
       ELSE IF ~validatePathWithinBase(vaultPath, notePath).valid
       THEN Rejected("delete-note", notePath, "accessDenied") /\ UNCHANGED <<fs, io>>
       ELSE DeleteNoteUnlink(notePath, validatePathWithinBase(vaultPath, notePath).resolvedPath)
  /\ UNCHANGED pager

\* getNoteMetadata in single mode from stat() on
GetNoteMetadataRead(notePath, fullPath) ==
  IF ~fs[fullPath].exists \/ ~fs[fullPath].statOk
  THEN Failed("get-note-metadata", notePath, "error", fullPath)
  ELSE IF ~validateFileSize(fs[fullPath].size, maxFileSize)
  THEN Failed("get-note-metadata", notePath, "invalidParams", fullPath)
  ELSE IF ~fs[fullPath].readOk
  THEN Failed("get-note-metadata", notePath, "error", fullPath)
  ELSE resp' = NoteReply("get-note-metadata", notePath,
                         [kind |-> "ok",
                          metadata |-> extractNoteMetadata(fs[fullPath].content, notePath)],
                         {fullPath}, IdleWriter)

\* getNoteMetadata(vaultPath, notePath, {batch: false}); its stat() and
\* readFile() are taken in one step
GetNoteMetadata ==
  /\ \E notePath \in NotePaths :
       IF notePath = Undefined \/ notePath = <<>>
       THEN Rejected("get-note-metadata", notePath, "invalidParams")
       ELSE IF ~validatePathWithinBase(vaultPath, notePath).valid
       THEN Rejected("get-note-metadata", notePath, "accessDenied")
       ELSE IF ~validateMarkdownExtension(notePath)
       THEN Rejected("get-note-metadata", notePath, "invalidParams")
       ELSE GetNoteMetadataRead(notePath, pathJoin(vaultPath, notePath))
  /\ UNCHANGED <<fs, pager, io>>

\* the ReadResource handler from readFile on
ReadResourceFile(relativePath, fullPath) ==
  IF ~fs[fullPath].exists \/ ~fs[fullPath].readOk
  THEN Failed("read-resource", relativePath, "fileNotFound", fullPath)
  ELSE resp' = NoteReply("read-resource", relativePath,
                         [kind |-> "ok", text |-> fs[fullPath].content], {fullPath}, IdleWriter)

\* the ReadResource handler for the path of an obsidian-note:// URI
ReadResourcePath(relativePath) ==
  IF ~validatePathWithinBase(vaultPath, pathJoin(vaultPath, relativePath)).valid
  THEN Rejected("read-resource", relativePath, "accessDenied")
  ELSE ReadResourceFile(relativePath, pathJoin(vaultPath, relativePath))

\* the ReadResource handler
ReadResource ==
  /\ \E uri \in Uris :
       IF ~startsWith(uri, Scheme)
       THEN Rejected("read-resource", uri, "unknownUri")
       ELSE ReadResourcePath(SubSeq(uri, Len(Scheme) + 1, Len(uri)))
  /\ UNCHANGED <<fs, pager, io>>

NextNotes ==
  \/ ReadNoteBegin \/ ReadNoteEnd
  \/ WriteNoteBegin \/ WriteNoteChunk \/ WriteNoteEnd
  \/ DeleteNote \/ GetNoteMetadata \/ ReadResource

SpecNotes == InitNotes /\ [][NextNotes]_vars

\* ------------------------------------------------------------------
\* Properties of the notes specification
\* ------------------------------------------------------------------

\* the operations on a single file at a caller-supplied path
NoteOps == {"read-note", "write-note", "delete-note", "get-note-metadata", "read-resource"}

\* C7: every operation that reads, writes or deletes a single file at a
\* caller-supplied path (read-note, write-note, delete-note, get-note-metadata
\* in single mode, reading an obsidian-note:// resource) rejects a path that
\* does not end in '.md' and does not touch the file.
C7_OnlyMarkdownAccessed ==
  (/\ resp.op \in NoteOps
   /\ resp.path # Undefined
   /\ ~endsWith(toLowerCase(resp.path), DotMd))
    => (resp.out.kind = "error" /\ resp.touched = {})

\* C8: a read-note of path p that runs concurrently with a write-note to p
\* returns either the complete content p had before the write or the complete
\* new content, never an empty or partially written file.
C8_WriteNoteAtomic ==
  (/\ resp.op = "read-note"
   /\ resp.out.kind = "ok"
   /\ resp.during.state = "writing"
   /\ resp.during.fullPath \in resp.touched)
    => \/ resp.out.content = resp.during.content
       \/ (resp.during.before.exists /\ resp.out.content = resp.during.before.content)

\* a read-note of a path that ran with no write-note in flight, after a
\* successful write-note or delete-note of that path
ReadAfter(kind) ==
  /\ resp.op = "read-note"
  /\ resp.touched # {}
  /\ resp.during = IdleWriter
  /\ resp.last.kind = kind
  /\ resp.last.fullPath \in resp.touched

\* C21: after successful write-note and delete-note calls on .md paths inside
\* the vault, read-note(p) returns the content of the most recent write to p
\* (with NUL characters removed) if p has not been deleted since that write,
\* and otherwise fails with a resource-not-found error.
C21_ReadReturnsLastWrite ==
  /\ ReadAfter("written")
       => (resp.out.kind = "ok" /\ resp.out.content = resp.last.content)
  /\ ReadAfter("deleted")
       => (resp.out.kind = "error" /\ resp.out.code = "resourceNotFound")

\* ------------------------------------------------------------------
\* The evaluator specification: an expression tree is grown node by node and
\* then evaluated against a document
\* ------------------------------------------------------------------

\* the documents: content, and the metadata {title, tags} of the caller
EvalDocs ==
  { [content |-> c, metadata |-> m] :
      c \in { <<"a", " ", "B">>, <<"c">> },
      m \in { [title |-> <<>>, tags |-> <<>>],
              [title |-> <<"A", "b">>, tags |-> << <<"B", "c">>, <<"d">> >>] } }

EvalValues == { <<>>, <<"a">>, <<"A", "B">>, <<"b", "c">>, <<"z">> }

EvalFields == { W_title, W_content, W_tag, <<"p", "a", "t", "h">> }

EvalLeaves ==
  { TermNode(v) : v \in EvalValues }
  \cup { FieldNode(f, v) : f \in EvalFields, v \in EvalValues \ {<<>>, <<"a">>} }

\* the leaves a tree is extended with
JoinLeaves == { TermNode(<<"a">>), FieldNode(W_tag, <<"d">>) }

\* the largest number of operator nodes of a tree
MaxOperators == 2

InitEval ==
  /\ fs = NoFiles
  /\ \E d \in EvalDocs, x \in EvalLeaves : resp = [op |-> "growing", doc |-> d, x |-> x, operators |-> 0]
  /\ pager = IdlePager
  /\ io = NoIo

\* the tree becomes the operand of a NOT node
NegateTree ==
  /\ resp.op = "growing"
  /\ resp.operators < MaxOperators
  /\ resp' = [resp EXCEPT !.x = NotNode(@), !.operators = @ + 1]
  /\ UNCHANGED <<fs, pager, io>>

\* the tree becomes one operand of an AND or OR node, a leaf the other
JoinTree ==
  /\ resp.op = "growing"
  /\ resp.operators < MaxOperators
  /\ \E t \in {"AND", "OR"}, leaf \in JoinLeaves, onLeft \in BOOLEAN :
       resp' = [resp EXCEPT !.x = IF onLeft THEN BinNode(t, @, leaf) ELSE BinNode(t, leaf, @),
                            !.operators = @ + 1]
  /\ UNCHANGED <<fs, pager, io>>

\* evaluateExpression(expression, content, metadata)
EvaluateTree ==
  /\ resp.op = "growing"
  /\ resp' = [op |-> "evaluated", doc |-> resp.doc, x |-> resp.x,
              out |-> evaluateExpression(resp.x, resp.doc.content, resp.doc.metadata)]
  /\ UNCHANGED <<fs, pager, io>>

NextEval == NegateTree \/ JoinTree \/ EvaluateTree

SpecEval == InitEval /\ [][NextEval]_vars

\* ------------------------------------------------------------------
\* Properties of the evaluator specification
\* ------------------------------------------------------------------

\* v occurs in h, letters compared without regard to case
OccursIgnoringCase(v, h) ==
  \E i \in 0..(Len(h) - Len(v)) : \A j \in 1..Len(v) : LowerChar(h[i + j]) = LowerChar(v[j])

\* v occurs in at least one of the tags
OccursInSomeTag(v, tags) == \E k \in DOMAIN tags : OccursIgnoringCase(v, tags[k])

\* what a leaf asks of a document
LeafHolds(x, doc) ==
  IF x.type = "TERM"
  THEN \/ OccursIgnoringCase(x.value, doc.content)
       \/ OccursIgnoringCase(x.value, doc.metadata.title)
       \/ OccursInSomeTag(x.value, doc.metadata.tags)
  ELSE IF x.field = W_title THEN OccursIgnoringCase(x.value, doc.metadata.title)
  ELSE IF x.field = W_content THEN OccursIgnoringCase(x.value, doc.content)
  ELSE IF x.field = W_tag THEN OccursInSomeTag(x.value, doc.metadata.tags)
  ELSE FALSE

\* C11: evaluateExpression on a leaf is case-insensitive substring matching
\* restricted by field: TERM(v) is true iff v occurs in the content, the title
\* or at least one tag; FIELD(title, v) iff v occurs in the title;
\* FIELD(content, v) iff v occurs in the content; FIELD(tag, v) iff some tag
\* contains v; a FIELD with any other field name is false and never an error.
C11_LeafIsFieldedSubstringMatch ==
  (resp.op = "evaluated" /\ resp.x.type \in {"TERM", "FIELD"}) =>
    resp.out = LeafHolds(resp.x, resp.doc)

\* a tag leaf that holds only because letters are compared without regard to
\* case: tag 'Bc' asked for as 'bc'
C11_Witness ==
  /\ resp.op = "evaluated"
  /\ resp.x = FieldNode(W_tag, <<"b", "c">>)
  /\ resp.doc.metadata.tags = << <<"B", "c">>, <<"d">> >>
  /\ resp.out = TRUE

\* the value of a tree for the document of resp
ValueOf(x) == evaluateExpression(x, resp.doc.content, resp.doc.metadata)

\* the trees the evaluated tree is combined with
OtherTrees == { TermNode(<<"a">>), NotNode(FieldNode(W_tag, <<"d">>)), NullExpr }

\* C12: evaluateExpression is a boolean homomorphism: for all trees a, b, x and
\* every document, evaluate(AND(a,b)) = evaluate(a) and evaluate(b),
\* evaluate(OR(a,b)) = evaluate(a) or evaluate(b), evaluate(NOT(x)) = not
\* evaluate(x), hence evaluate(NOT(NOT(x))) = evaluate(x).
C12_EvaluationIsHomomorphism ==
  resp.op = "evaluated" =>
    /\ resp.x.type = "AND" => resp.out = (ValueOf(resp.x.left) /\ ValueOf(resp.x.right))
    /\ resp.x.type = "OR" => resp.out = (ValueOf(resp.x.left) \/ ValueOf(resp.x.right))
    /\ resp.x.type = "NOT" => resp.out = ~ValueOf(resp.x.operand)
    /\ ValueOf(NotNode(resp.x)) = ~resp.out
    /\ ValueOf(NotNode(NotNode(resp.x))) = resp.out
    /\ \A b \in OtherTrees :
         /\ ValueOf(BinNode("AND", resp.x, b)) = (resp.out /\ ValueOf(b))
         /\ ValueOf(BinNode("AND", b, resp.x)) = (ValueOf(b) /\ resp.out)
         /\ ValueOf(BinNode("OR", resp.x, b)) = (resp.out \/ ValueOf(b))
         /\ ValueOf(BinNode("OR", b, resp.x)) = (ValueOf(b) \/ resp.out)

\* a true OR node whose left operand is a false NOT node
C12_Witness ==
  /\ resp.op = "evaluated"
  /\ resp.x.type = "OR"
  /\ resp.x.left.type = "NOT"
  /\ ~ValueOf(resp.x.left)
  /\ resp.out = TRUE

\* ------------------------------------------------------------------
\* The builder specification: a token list is put together group by group and
\* handed to buildSearchExpression
\* ------------------------------------------------------------------

Tok_a == TermTok(<<"a">>)
Tok_b == TermTok(<<"b">>)
Tok_c == FieldTok(W_title, <<"c">>)

\* the token groups a token list of the model is made of
TokenGroups ==
  { <<Tok_a>>, <<Tok_b>>, <<OpTok("NOT")>>, <<OpTok("AND")>>, <<OpTok("OR")>>,
    <<OpTok("LPAREN")>>, <<OpTok("RPAREN")>>,
    <<OpTok("AND"), Tok_b>>, <<OpTok("OR"), Tok_c>>,
    <<OpTok("LPAREN"), Tok_a, OpTok("OR"), Tok_b, OpTok("RPAREN")>> }

\* the largest number of groups of a token list
MaxGroups == 3

InitBuild ==
  /\ fs = NoFiles
  /\ resp = [op |-> "tokens", tokens |-> <<>>, groups |-> 0]
  /\ pager = IdlePager
  /\ io = NoIo

\* the caller extends the token list
AddTokens ==
  /\ resp.op = "tokens"
  /\ resp.groups < MaxGroups
  /\ \E g \in TokenGroups :
       resp' = [op |-> "tokens", tokens |-> resp.tokens \o g, groups |-> resp.groups + 1]
  /\ UNCHANGED <<fs, pager, io>>

\* buildSearchExpression(tokens)
BuildTokens ==
  /\ resp.op = "tokens"
  /\ resp' = [op |-> "built", tokens |-> resp.tokens, out |-> buildSearchExpression(resp.tokens)]
  /\ UNCHANGED <<fs, pager, io>>

NextBuild == AddTokens \/ BuildTokens

SpecBuild == InitBuild /\ [][NextBuild]_vars

\* ------------------------------------------------------------------
\* Properties of the builder specification
\* ------------------------------------------------------------------

\* The query grammar, read by recursive descent over a token list:
\*   or_expr  := and_expr (OR and_expr)*
\*   and_expr := not_expr (AND not_expr)*
\*   not_expr := NOT not_expr | atom
\*   atom     := ( or_expr ) | FIELD | TERM
\* A reading is [ok |-> TRUE, tree |-> t, next |-> the position after it] or
\* NoReading.
NoReading == [ok |-> FALSE]

\* a reading with a NOT node put over its tree
Negated(r) == IF r.ok THEN [r EXCEPT !.tree = NotNode(@)] ELSE NoReading

\* the readings l and r joined by a binary operator t, l being the earlier one
Joined(t, l, r) ==
  IF r.ok THEN [ok |-> TRUE, tree |-> BinNode(t, l.tree, r.tree), next |-> r.next] ELSE NoReading

\* the reading r of a parenthesised expression, closed by the ")" after it
Closed(ts, r) ==
  IF r.ok /\ r.next <= Len(ts) /\ ts[r.next].type = "RPAREN"
  THEN [r EXCEPT !.next = @ + 1]
  ELSE NoReading

RECURSIVE GrammarOr(_, _)
RECURSIVE GrammarOrRest(_, _)
RECURSIVE GrammarAnd(_, _)
RECURSIVE GrammarAndRest(_, _)
RECURSIVE GrammarNot(_, _)
RECURSIVE GrammarAtom(_, _)

GrammarAtom(ts, i) ==
  IF i > Len(ts) THEN NoReading
  ELSE IF ts[i].type \in {"TERM", "FIELD"}
  THEN [ok |-> TRUE, tree |-> LeafOf(ts[i]), next |-> i + 1]
  ELSE IF ts[i].type = "LPAREN" THEN Closed(ts, GrammarOr(ts, i + 1))
  ELSE NoReading

GrammarNot(ts, i) ==
  IF i <= Len(ts) /\ ts[i].type = "NOT" THEN Negated(GrammarNot(ts, i + 1)) ELSE GrammarAtom(ts, i)

GrammarAndRest(ts, l) ==
  IF ~l.ok THEN NoReading
  ELSE IF l.next <= Len(ts) /\ ts[l.next].type = "AND"
  THEN GrammarAndRest(ts, Joined("AND", l, GrammarNot(ts, l.next + 1)))
  ELSE l

GrammarAnd(ts, i) == GrammarAndRest(ts, GrammarNot(ts, i))

GrammarOrRest(ts, l) ==
  IF ~l.ok THEN NoReading
  ELSE IF l.next <= Len(ts) /\ ts[l.next].type = "OR"
  THEN GrammarOrRest(ts, Joined("OR", l, GrammarAnd(ts, l.next + 1)))
  ELSE l

GrammarOr(ts, i) == GrammarOrRest(ts, GrammarAnd(ts, i))

\* the whole token list is one expression of the grammar
Grammatical(ts) == GrammarOr(ts, 1).ok /\ GrammarOr(ts, 1).next = Len(ts) + 1

\* C13: for every token list of a grammatical query with balanced parentheses
\* (the implicit ANDs inserted), buildSearchExpression returns the tree the
\* query grammar defines: NOT binds tighter than AND, AND tighter than OR,
\* equal binary operators associate to the left, a parenthesised subexpression
\* is one operand, and 'left' is the operand written earlier.
C13_BuildsGrammarTree ==
  (/\ resp.op = "built"
   /\ resp.tokens = InsertImplicitAnd(resp.tokens, 1)
   /\ Grammatical(resp.tokens))
    => resp.out = [kind |-> "tree", tree |-> GrammarOr(resp.tokens, 1).tree]

\* 'a OR title:c AND b' built as OR(a, AND(title:c, b))
C13_Witness ==
  /\ resp.op = "built"
  /\ resp.tokens = <<Tok_a, OpTok("OR"), Tok_c, OpTok("AND"), Tok_b>>
  /\ resp.out.kind = "tree"
  /\ resp.out.tree = BinNode("OR", LeafOf(Tok_a), BinNode("AND", LeafOf(Tok_c), LeafOf(Tok_b)))

\* the postfix queue the operand stack is built from
RpnOf(tokens) == ShuntingYard(tokens, 1, <<>>, <<>>)

\* the number of operands on the stack after the first k tokens of the queue,
\* if none of them failed: every leaf adds one, every AND or OR takes one
OperandsAfter(rpn, k) ==
  Cardinality({ j \in 1..k : rpn[j].type \in {"TERM", "FIELD"} })
  - Cardinality({ j \in 1..k : rpn[j].type \in {"AND", "OR"} })

\* some NOT finds no operand on the stack, or some AND or OR fewer than two
OperatorStarved(rpn) ==
  \E k \in DOMAIN rpn :
    \/ rpn[k].type = "NOT" /\ OperandsAfter(rpn, k - 1) < 1
    \/ rpn[k].type \in {"AND", "OR"} /\ OperandsAfter(rpn, k - 1) < 2

\* C14: buildSearchExpression raises an error, and returns no tree, whenever a
\* NOT has no operand on the stack, an AND or OR has fewer than two, or the
\* operand stack at the end does not hold exactly one node (for example an
\* empty parenthesis pair); an empty token list is not an error and returns
\* null.
C14_MalformedListRaises ==
  resp.op = "built" =>
    IF resp.tokens = <<>> THEN resp.out.kind = "null"
    ELSE (\/ OperatorStarved(RpnOf(resp.tokens))
          \/ OperandsAfter(RpnOf(resp.tokens), Len(RpnOf(resp.tokens))) # 1)
           => resp.out.kind = "error"

\* the empty parenthesis pair raised an error
C14_Witness ==
  /\ resp.op = "built"
  /\ resp.tokens = <<OpTok("LPAREN"), OpTok("RPAREN")>>
  /\ resp.out.kind = "error"

\* ------------------------------------------------------------------
\* Properties of the matcher specification: the lines expression mode returns
\* ------------------------------------------------------------------

\* the expression of the query of resp, as findMatchesWithOperators parses it
ParsedQuery == parseSearchQuery(resp.q)

\* the query of resp is satisfied by the document of resp, with the metadata
\* searchVault extracts from it
DocumentSatisfiesQuery ==
  /\ ParsedQuery.kind = "tree"
  /\ evaluateExpression(ParsedQuery.tree, resp.content,
                        Metadata(resp.content, extractH1Title(resp.content)))

\* the root of the expression is a single title: or tag: field specifier
PureFieldQuery(f) ==
  ParsedQuery.kind = "tree" /\ ParsedQuery.tree.type = "FIELD" /\ ParsedQuery.tree.field = f

\* the values of the TERM and FIELD leaves that are under no NOT node
RECURSIVE PositiveTerms(_)
PositiveTerms(x) ==
  IF x.type \in {"TERM", "FIELD"} THEN {x.value}
  ELSE IF x.type \in {"AND", "OR"} THEN PositiveTerms(x.left) \cup PositiveTerms(x.right)
  ELSE {}

\* v occurs in h as written
OccursExactly(v, h) ==
  \E i \in 0..(Len(h) - Len(v)) : \A j \in 1..Len(v) : h[i + j] = v[j]

\* the numbers of the lines of the document that hold a positive term
LinesWithPositiveTerm ==
  { k \in DOMAIN split(resp.content) :
      \E t \in PositiveTerms(ParsedQuery.tree) :
        IF resp.caseSensitive THEN OccursExactly(t, split(resp.content)[k])
        ELSE OccursIgnoringCase(t, split(resp.content)[k]) }

\* the line numbers of the matches of expression mode
MatchedLineNumbers == { resp.expr.matches[k].line : k \in DOMAIN resp.expr.matches }

\* C15: for a general boolean query whose expression is true for the document,
\* findMatchesWithOperators returns exactly the lines that contain at least one
\* positive term (the value of a TERM or FIELD leaf not under any NOT), compared
\* case-sensitively or not per the flag; a term that appears only inside a NOT
\* subtree never causes a line to be returned.
C15_LinesOfPositiveTerms ==
  (/\ resp.op = "matched"
   /\ DocumentSatisfiesQuery
   /\ ~PureFieldQuery(W_title) /\ ~PureFieldQuery(W_tag))
    => /\ resp.expr.kind = "ok"
       /\ MatchedLineNumbers = LinesWithPositiveTerm
       /\ Len(resp.expr.matches) = Cardinality(LinesWithPositiveTerm)
       /\ \A k \in DOMAIN resp.expr.matches :
            resp.expr.matches[k].content = trim(split(resp.content)[resp.expr.matches[k].line])

\* 'b OR -a' over the lines 'a' and 'b': the line holding the negated term is
\* not returned, the line holding the positive term is
C15_Witness ==
  /\ resp.op = "matched"
  /\ resp.q = <<"b", " ", "O", "R", " ", "-", "a">>
  /\ resp.content = <<"a", "\n", "b">>
  /\ DocumentSatisfiesQuery
  /\ MatchedLineNumbers = {2}

\* a line that trims to '#', white space and a title
HeadingLine(line) == Len(trim(line)) >= 3 /\ trim(line)[1] = "#" /\ IsSpace(trim(line)[2])

\* the numbers of the lines before which the document has no heading line
BeforeAnyHeading == { k \in DOMAIN split(resp.content) :
                        \A j \in 1..(k - 1) : ~HeadingLine(split(resp.content)[j]) }

\* C16: for a query that is a single title: field specifier and a document it
\* matches, findMatchesWithOperators returns at most one match, and that match
\* is the document's first H1 heading line; no other line is returned even if
\* it contains the searched value.
C16_OnlyTitleLine ==
  (resp.op = "matched" /\ DocumentSatisfiesQuery /\ PureFieldQuery(W_title))
    => /\ resp.expr.kind = "ok"
       /\ Len(resp.expr.matches) <= 1
       /\ \A k \in DOMAIN resp.expr.matches :
            /\ resp.expr.matches[k].line \in BeforeAnyHeading
            /\ HeadingLine(split(resp.content)[resp.expr.matches[k].line])
            /\ resp.expr.matches[k].content = trim(split(resp.content)[resp.expr.matches[k].line])

\* 'title:a' over the lines 'a' and '# a': only the heading, line 2, is returned
C16_Witness ==
  /\ resp.op = "matched"
  /\ resp.q = <<"t", "i", "t", "l", "e", ":", "a">>
  /\ resp.content = <<"a", "\n", "#", " ", "a">>
  /\ DocumentSatisfiesQuery
  /\ MatchedLineNumbers = {2}

\* ------------------------------------------------------------------
\* The truncation specification: the matches of some files are aggregated by
\* transformSearchResults and cut by limitSearchResults
\* ------------------------------------------------------------------

\* the largest number of files with matches
MaxLimitFiles == 3

\* the largest number of matches of a file; more than MaxMatchesPerFile, so
\* that transformSearchResults cuts the list of some files
MaxFileMatches == 6

\* the largest maxResults a caller asks for
MaxResults == 8

\* the path of the k-th file: /v/a.md, /v/b.md, ...
LimitPath(k) == vaultPath \o <<"/", LowerLetters[k], ".", "m", "d">>

\* n matches, on lines 1 to n
LimitMatches(n) == [j \in 1..n |-> [line |-> j, content |-> <<"x">>]]

InitLimit ==
  /\ fs = NoFiles
  /\ resp = [op |-> "matching", fileMatches |-> <<>>]
  /\ pager = IdlePager
  /\ io = NoIo

\* the search records the matches of one more file
AddFileMatches ==
  /\ resp.op = "matching"
  /\ Len(resp.fileMatches) < MaxLimitFiles
  /\ \E n \in 1..MaxFileMatches :
       resp' = [resp EXCEPT !.fileMatches =
                  Append(@, [file |-> LimitPath(Len(@) + 1), matches |-> LimitMatches(n)])]
  /\ UNCHANGED <<fs, pager, io>>

\* limitSearchResults(transformSearchResults(fileMatches, vaultPath), maxResults)
LimitResults ==
  /\ resp.op = "matching"
  /\ \E maxResults \in 0..MaxResults :
       \E input \in {transformSearchResults(resp.fileMatches, vaultPath)} :
         resp' = [op |-> "limited", input |-> input, maxResults |-> maxResults,
                  out |-> limitSearchResults(input, maxResults)]
  /\ UNCHANGED <<fs, pager, io>>

NextLimit == AddFileMatches \/ LimitResults

SpecLimit == InitLimit /\ [][NextLimit]_vars

\* ------------------------------------------------------------------
\* Properties of the truncation specification
\* ------------------------------------------------------------------

\* C17: limitSearchResults returns its input unchanged, without a truncated
\* flag, exactly when totalMatches <= maxResults (the boundary totalMatches =
\* maxResults is not truncated); otherwise the result has truncated = true and
\* a message that names maxResults.
C17_TruncatedOnlyAboveLimit ==
  resp.op = "limited" =>
    IF resp.input.totalMatches <= resp.maxResults
    THEN resp.out = resp.input /\ "truncated" \notin DOMAIN resp.out
    ELSE /\ resp.out # resp.input
         /\ "truncated" \in DOMAIN resp.out /\ resp.out.truncated = TRUE
         /\ \E k \in DOMAIN resp.out.message : resp.out.message[k] = ToString(resp.maxResults)

\* the boundary: two files whose matches number exactly maxResults, returned
\* unchanged
C17_Witness ==
  /\ resp.op = "limited"
  /\ Len(resp.input.files) = 2
  /\ resp.input.totalMatches = resp.maxResults
  /\ resp.out = resp.input

\* totalMatches is the sum of the files' matchCount and every matches array
\* holds matchCount entries
ConsistentResults(r) ==
  /\ r.totalMatches = SumOf([k \in 1..Len(r.files) |-> r.files[k].matchCount])
  /\ \A k \in DOMAIN r.files : Len(r.files[k].matches) = r.files[k].matchCount

\* file f of the output is file g of the input cut to n matches and marked
CutTo(f, g, n) ==
  /\ "partialFile" \in DOMAIN f /\ f.partialFile = TRUE
  /\ f.path = g.path
  /\ f.matchCount = n
  /\ f.matches = SubSeq(g.matches, 1, n)
  /\ n < g.matchCount

\* C18: when limitSearchResults truncates an input whose totalMatches equals
\* the sum of its files' matchCount and whose matches arrays hold matchCount
\* entries each, the output holds exactly the first maxResults matches in file
\* order then line order: its totalMatches equals maxResults and the sum of the
\* output files' matchCount, whole files are kept unmarked, and at most one
\* file, the last one, is marked partialFile with its matches cut to the
\* remaining quota.
C18_TruncationKeepsFirstMatches ==
  (/\ resp.op = "limited"
   /\ resp.input.totalMatches > resp.maxResults
   /\ ConsistentResults(resp.input))
    => /\ Flatten(resp.out.files) = SubSeq(Flatten(resp.input.files), 1, resp.maxResults)
       /\ resp.out.totalMatches = resp.maxResults
       /\ resp.out.totalMatches
            = SumOf([k \in 1..Len(resp.out.files) |-> resp.out.files[k].matchCount])
       /\ \A k \in 1..(Len(resp.out.files) - 1) : resp.out.files[k] = resp.input.files[k]
       /\ \A k \in {Len(resp.out.files)} \ {0} :
            \/ resp.out.files[k] = resp.input.files[k]
            \/ CutTo(resp.out.files[k], resp.input.files[k],
                     resp.maxResults
                       - SumOf([j \in 1..(k - 1) |-> resp.input.files[j].matchCount]))

\* a truncation that keeps the first file whole and cuts the second
C18_Witness ==
  /\ resp.op = "limited"
  /\ resp.input.totalMatches > resp.maxResults
  /\ ConsistentResults(resp.input)
  /\ Len(resp.out.files) = 2
  /\ resp.out.files[1] = resp.input.files[1]
  /\ "partialFile" \in DOMAIN resp.out.files[2]
  /\ Len(resp.out.files[2].matches) >= 2

\* ------------------------------------------------------------------
\* The context specification: a list of lines is put together and the context
\* of one of them extracted
\* ------------------------------------------------------------------

\* the largest number of lines of the list
MaxContextLines == 4

\* the largest radius asked for
MaxRadius == 3

InitContext ==
  /\ fs = NoFiles
  /\ resp = [op |-> "lines", lines |-> <<>>]
  /\ pager = IdlePager
  /\ io = NoIo

\* one more line of the file
AddContextLine ==
  /\ resp.op = "lines"
  /\ Len(resp.lines) < MaxContextLines
  /\ \E line \in { <<"a">>, <<"b">> } : resp' = [resp EXCEPT !.lines = Append(@, line)]
  /\ UNCHANGED <<fs, pager, io>>

\* extractContextLines(lines, matchIndex, contextSize) for an index of the
\* list (index 0 of the empty list)
ExtractContext ==
  /\ resp.op = "lines"
  /\ \E matchIndex \in 0..Max(0, Len(resp.lines) - 1), contextSize \in 0..MaxRadius :
       resp' = [op |-> "context", lines |-> resp.lines,
                matchIndex |-> matchIndex, contextSize |-> contextSize,
                out |-> extractContextLines(resp.lines, matchIndex, contextSize)]
  /\ UNCHANGED <<fs, pager, io>>

\* findMatchesInContent and findMatchesWithOperators over the file of these
\* lines, with the options {includeContext: true, contextLines}
MatchWithContext ==
  /\ resp.op = "lines"
  /\ \E q \in { <<"a">>, <<"b">> }, contextLines \in 0..MaxRadius :
       resp' = [op |-> "found", lines |-> resp.lines, q |-> q, contextLines |-> contextLines,
                plain |-> findMatchesInContent(
                            join(resp.lines), q, FALSE,
                            [includeContext |-> TRUE, contextLines |-> contextLines]),
                expr |-> findMatchesWithOperators(
                           join(resp.lines), q, [title |-> <<>>, tags |-> <<>>], FALSE,
                           [includeContext |-> TRUE, contextLines |-> contextLines]).matches]
  /\ UNCHANGED <<fs, pager, io>>

NextContext == AddContextLine \/ ExtractContext \/ MatchWithContext

SpecContext == InitContext /\ [][NextContext]_vars

\* ------------------------------------------------------------------
\* Properties of the context specification
\* ------------------------------------------------------------------

\* the 0-based index of the first line of the window
WindowStart == IF resp.matchIndex - resp.contextSize < 0 THEN 0
               ELSE resp.matchIndex - resp.contextSize

\* the 0-based index of the last line of the window
WindowEnd == IF resp.matchIndex + resp.contextSize > Len(resp.lines) - 1 THEN Len(resp.lines) - 1
             ELSE resp.matchIndex + resp.contextSize

\* C19: for every non-empty line list, match index m within it and radius
\* r >= 0, extractContextLines returns the lines at indices max(0, m-r) ..
\* min(len-1, m+r) inclusive, startIndex = max(0, m-r) and matchIndex = m -
\* startIndex; radius 0 returns only the matched line.
C19_ContextIsInclusiveWindow ==
  (resp.op = "context" /\ resp.lines # <<>>) =>
    /\ Len(resp.out.lines) = WindowEnd - WindowStart + 1
    /\ \A i \in 1..Len(resp.out.lines) : resp.out.lines[i] = resp.lines[WindowStart + i]
    /\ resp.out.startIndex = WindowStart
    /\ resp.out.matchIndex = resp.matchIndex - WindowStart
    /\ resp.contextSize = 0 => resp.out.lines = <<resp.lines[resp.matchIndex + 1]>>

\* a window cut at the start of the list and reaching its last line: index 1
\* of four lines with radius 2
C19_Witness ==
  /\ resp.op = "context"
  /\ Len(resp.lines) = 4 /\ resp.matchIndex = 1 /\ resp.contextSize = 2
  /\ resp.out.startIndex = 0
  /\ resp.out.matchIndex = 1
  /\ resp.out.lines = resp.lines

\* ------------------------------------------------------------------
\* The path specification: a target path is put together piece by piece and
\* validated against a base directory
\* ------------------------------------------------------------------

\* the pieces a target path of the model is made of
PathPieces ==
  { <<"/", "v">>, <<"/", ".", ".">>, <<"/", "a">>, <<"/", ".">>, <<"/">>, <<"2">>, <<".", ".">> }

\* the largest number of pieces of a target path
MaxPathPieces == 4

\* the base directories: the vault, the vault written with a trailing
\* separator, a directory of the vault
BasePaths == { vaultPath, vaultPath \o <<"/">>, vaultPath \o <<"/", "a">> }

InitPath ==
  /\ fs = NoFiles
  /\ resp = [op |-> "path", target |-> <<>>, pieces |-> 0]
  /\ pager = IdlePager
  /\ io = NoIo

\* the caller extends the target path
AddPathPiece ==
  /\ resp.op = "path"
  /\ resp.pieces < MaxPathPieces
  /\ \E piece \in PathPieces :
       resp' = [op |-> "path", target |-> resp.target \o piece, pieces |-> resp.pieces + 1]
  /\ UNCHANGED <<fs, pager, io>>

\* validatePathWithinBase(basePath, targetPath)
ValidatePath ==
  /\ resp.op = "path"
  /\ \E basePath \in BasePaths :
       resp' = [op |-> "validated", base |-> basePath, target |-> resp.target,
                out |-> validatePathWithinBase(basePath, resp.target)]
  /\ UNCHANGED <<fs, pager, io>>

NextPath == AddPathPiece \/ ValidatePath

SpecPath == InitPath /\ [][NextPath]_vars

\* ------------------------------------------------------------------
\* Properties of the path specification
\* ------------------------------------------------------------------

\* the directory names of a resolved path, root first
NamesOf(p) == SelectSeq(splitOn(p, "/"), LAMBDA n : n # <<>>)

\* the location p is directory b itself or lies beneath it
AtOrBeneath(p, b) ==
  /\ Len(NamesOf(b)) <= Len(NamesOf(p))
  /\ SubSeq(NamesOf(p), 1, Len(NamesOf(b))) = NamesOf(b)

\* the target of resp resolves to the base itself or to a location beneath it
TargetWithinBase ==
  AtOrBeneath(resolve(resp.base, resp.target), resolve(resp.base, <<>>))

\* C20: validatePathWithinBase reports a target path as valid only if it
\* resolves to the base directory itself or to a location beneath it; every
\* target that resolves outside the base, through '..' segments or through an
\* absolute path (including a sibling directory whose name merely starts with
\* the base's name), is rejected.
C20_ValidOnlyWithinBase ==
  resp.op = "validated" =>
    /\ resp.out.valid => (TargetWithinBase /\ resp.out.resolvedPath = resolve(resp.base, resp.target))
    /\ ~TargetWithinBase => ~resp.out.valid

\* the sibling directory /v2 of the base /v, given as an absolute path, is
\* rejected
C20_Witness ==
  /\ resp.op = "validated"
  /\ resp.base = vaultPath
  /\ resp.target = <<"/", "v", "2", "/", "a">>
  /\ ~TargetWithinBase
  /\ ~resp.out.valid

\* a target with '..' segments that stays within the base is accepted
C20_WitnessAccepted ==
  /\ resp.op = "validated"
  /\ resp.base = vaultPath
  /\ resp.target = <<"/", "v", "/", "a", "/", ".", ".", "/", "a">>
  /\ resp.out.valid

\* ------------------------------------------------------------------
\* Properties of the parser specification: the token sequence
\* ------------------------------------------------------------------

\* the tokens of the scanning loop for the parsed query, before the second loop
ScannedTokens == ScanTokens(resp.q, 1, <<>>)

\* an operand or closing parenthesis directly before an operand, an opening
\* parenthesis or a negation
OperandPair(left, right) ==
  /\ left.type \in {"TERM", "FIELD", "RPAREN"}
  /\ right.type \in {"TERM", "FIELD", "LPAREN", "NOT"}

\* where the k-th scanned token stands in the returned sequence: one place
\* further for every operand pair before it
PlaceOf(k) ==
  k + Cardinality({ j \in 1..(k - 1) : OperandPair(ScannedTokens[j], ScannedTokens[j + 1]) })

\* C22: in every token sequence returned by tokenizeQuery, no TERM, FIELD or
\* RPAREN token is immediately followed by a TERM, FIELD, LPAREN or NOT token;
\* an implicit AND is inserted between exactly those pairs and nowhere else,
\* and the other tokens keep their source order.
C22_ImplicitAndBetweenOperandPairs ==
  resp.op = "parsed" =>
    /\ \A j \in 1..(Len(resp.tokens) - 1) : ~OperandPair(resp.tokens[j], resp.tokens[j + 1])
    /\ Len(resp.tokens) = IF ScannedTokens = <<>> THEN 0 ELSE PlaceOf(Len(ScannedTokens))
    /\ \A k \in DOMAIN ScannedTokens :
         /\ resp.tokens[PlaceOf(k)] = ScannedTokens[k]
         /\ (k < Len(ScannedTokens) /\ OperandPair(ScannedTokens[k], ScannedTokens[k + 1]))
              => resp.tokens[PlaceOf(k) + 1] = OpTok("AND")

\* the query 'a(b': an AND is inserted between 'a' and '(' and none between
\* '(' and 'b'
C22_Witness ==
  /\ resp.op = "parsed"
  /\ ScannedTokens = <<TermTok(<<"a">>), OpTok("LPAREN"), TermTok(<<"b">>)>>
  /\ resp.tokens = <<TermTok(<<"a">>), OpTok("AND"), OpTok("LPAREN"), TermTok(<<"b">>)>>

\* a contiguous non-space run that is not an operator keyword, a parenthesis,
\* a quoted phrase or a negation dash with its word
PlainRun(q) ==
  /\ q # <<>>
  /\ \A k \in DOMAIN q : ~IsSpace(q[k]) /\ q[k] \notin {"\"", "(", ")"}
  /\ ~(q[1] = "-" /\ Len(q) > 1)
  /\ q \notin {W_AND, W_AMPAMP, W_OR, W_BARBAR, W_NOT}

\* a field specifier with non-empty field and value: the first ':' of the run
\* is neither its first nor its last character
FieldSpecifier(q) ==
  \E k \in DOMAIN q :
    /\ q[k] = ":"
    /\ \A j \in 1..(k - 1) : q[j] # ":"
    /\ 1 < k /\ k < Len(q)

\* C23: every contiguous non-space run that is not an operator keyword, a
\* parenthesis, a quoted phrase, a negation dash or a field specifier with
\* non-empty field and value becomes a TERM token holding that run; in
\* particular a word containing ':' whose field part or value part is empty
\* (such as 'title:' or ':x') yields a TERM token and is not dropped.
C23_OtherRunIsTerm ==
  (resp.op = "parsed" /\ PlainRun(resp.q) /\ ~FieldSpecifier(resp.q))
    => resp.tokens = <<TermTok(resp.q)>>

\* C24: parseSearchQuery returns 'no expression' (null) only for an empty or
\* whitespace-only query; every query containing at least one non-space
\* character yields either an expression tree or a parse error.
C24_NullOnlyForBlankQuery ==
  (resp.op = "parsed" /\ resp.out.kind = "null") => trim(resp.q) = <<>>

\* opening minus closing parentheses among the first k tokens
ParenDepth(tokens, k) ==
  Cardinality({ j \in 1..k : tokens[j].type = "LPAREN" })
    - Cardinality({ j \in 1..k : tokens[j].type = "RPAREN" })

\* an '(' that is never closed or a ')' that was never opened
Unbalanced(tokens) ==
  \/ ParenDepth(tokens, Len(tokens)) # 0
  \/ \E k \in DOMAIN tokens : ParenDepth(tokens, k) < 0

\* C25: a query with unbalanced parentheses makes buildSearchExpression raise
\* a parse error; it never returns a tree for such a token stream.
C25_UnbalancedParenthesesRaise ==
  (resp.op = "parsed" /\ Unbalanced(resp.tokens)) => resp.out.kind = "error"

\* C26: in expression mode, for every non-empty document and every parsed
\* expression, findMatchesWithOperators returns at least one match if and only
\* if evaluateExpression is true for that document (including queries made
\* only of negated terms and matches found only in the title or tag metadata).
C26_MatchesIffExpressionTrue ==
  (resp.op = "matched" /\ resp.content # <<>> /\ ParsedQuery.kind = "tree")
    => /\ resp.expr.kind = "ok"
       /\ (resp.expr.matches # <<>>) <=> DocumentSatisfiesQuery

\* the results before and after limitSearchResults
BothResults == { [files |-> resp.input.files, totalMatches |-> resp.input.totalMatches],
                 [files |-> resp.out.files, totalMatches |-> resp.out.totalMatches] }

MatchesWithContext ==
  { resp.plain[k] : k \in DOMAIN resp.plain } \cup { resp.expr[k] : k \in DOMAIN resp.expr }

\* C28: for every match that carries a context (radius >= 0), the context
\* lines have consecutive ascending absolute line numbers, exactly one context
\* line has isMatch = true, and that line's number equals the match's line.
C28_ContextNumbersLines ==
  resp.op = "found" =>
    \A m \in MatchesWithContext :
      /\ "context" \in DOMAIN m
      /\ \A i \in 1..(Len(m.context.lines) - 1) :
           m.context.lines[i + 1].number = m.context.lines[i].number + 1
      /\ Cardinality({ i \in DOMAIN m.context.lines : m.context.lines[i].isMatch }) = 1
      /\ \A i \in DOMAIN m.context.lines :
           m.context.lines[i].isMatch => m.context.lines[i].number = m.line
      /\ \A i \in DOMAIN m.context.lines :
           m.context.lines[i].text = resp.lines[m.context.lines[i].number]

\* line 3 of four lines matched with radius 1: the context is lines 2 to 4
C28_Witness ==
  /\ resp.op = "found"
  /\ Len(resp.lines) = 4 /\ resp.contextLines = 1
  /\ \E m \in MatchesWithContext :
       /\ m.line = 3
       /\ Len(m.context.lines) = 3
       /\ m.context.lines[1].number = 2
       /\ m.context.lines[2].isMatch

\* ------------------------------------------------------------------
\* Properties of the search specification: files that cannot be searched
\* ------------------------------------------------------------------

\* a file whose stat or read fails, or whose size exceeds maxFileSize
Unsearchable(f) == ~f.statOk \/ ~f.readOk \/ f.size > maxFileSize

\* the files glob returned without the unsearchable ones
RemainingFiles == SelectSeq(resp.found, LAMBDA p : ~Unsearchable(fs[p]))

ScanPieces ==
  { <<"a">>, <<" ">>, <<"-">>, <<"(">>, <<"t", ":">>,
    <<"\"">>, <<"\"", "a">>, <<"\"", "a", "\"">> }

\* the largest number of pieces of a query
MaxScanPieces == 2

\* the queries of at most n pieces
RECURSIVE ScanQueries(_)
ScanQueries(n) ==
  IF n = 0 THEN { <<>> }
  ELSE ScanQueries(n - 1) \cup { q \o piece : q \in ScanQueries(n - 1), piece \in ScanPieces }

InitScan ==
  /\ fs = NoFiles
  /\ resp = [op |-> "calling", before |-> 0, i |-> 1]
  /\ pager = IdlePager
  /\ io = NoIo

\* tokenizeQuery(query) is called: let i = 0 (position 1 of the model), before
\* the first iteration
ScanCall ==
  /\ resp.op = "calling"
  /\ \E query \in ScanQueries(MaxScanPieces) :
       resp' = [op |-> "scanning", q |-> query, before |-> 0, i |-> 1, tokens |-> <<>>]
  /\ UNCHANGED <<fs, pager, io>>

\* one iteration of while (i < query.length); "before" is the position the
\* iteration started at
ScanIteration ==
  /\ resp.op = "scanning"
  /\ resp.q # <<>> /\ trim(resp.q) # <<>>
  /\ resp.i <= Len(resp.q)
  /\ \E s \in {ScanStep(resp.q, resp.i, resp.tokens)} :
       resp' = [resp EXCEPT !.before = resp.i, !.i = s.i, !.tokens = s.tokens]
  /\ UNCHANGED <<fs, pager, io>>

\* the early return for a blank query, or the second loop and the return
ScanReturn ==
  /\ resp.op = "scanning"
  /\ (resp.q = <<>> \/ trim(resp.q) = <<>> \/ resp.i > Len(resp.q))
  /\ resp' = [resp EXCEPT !.op = "returned", !.tokens = InsertImplicitAnd(resp.tokens, 1)]
  /\ UNCHANGED <<fs, pager, io>>

NextScan == ScanCall \/ ScanIteration \/ ScanReturn

SpecScan == InitScan /\ [][NextScan]_vars /\ WF_vars(ScanIteration) /\ WF_vars(ScanReturn)

\* every iteration so far has consumed at least one character
ScanAdvanced == resp.i > resp.before

\* C30: tokenizeQuery terminates on every query string: each iteration of its
\* scanning loop consumes at least one character, including for an
\* unterminated quote, a lone '-', a '-' before a non-space character, and a
\* word containing ':' followed by a quoted value.
C30_ScanTerminates ==
  /\ [](ScanAdvanced /\ (resp.op = "returned" => resp.tokens = tokenizeQuery(resp.q)))
  /\ (resp.op = "scanning") ~> (resp.op = "returned")

\* the query 't:"a' scanned to its end in one iteration: the word, the
\* opening quote and the unterminated value are consumed together
C30_Witness ==
  /\ resp.op = "returned"
  /\ resp.q = <<"t", ":", "\"", "a">>
  /\ resp.before = 1
  /\ resp.i = Len(resp.q) + 1
  /\ resp.tokens = <<>>

====
